---- MODULE Spec2Model ----
(***************************************************************************)
(* Model of the Glare worker's scheduled-plan core                         *)
(* (apps/worker/src/main.rs): the cron evaluator, the plan cache refresh,  *)
(* the per-minute dispatch dedup of the plan supervisor, the plan          *)
(* execution task, and the bounded, persisted queue of pending reports     *)
(* with its flush loop.                                                    *)
(*                                                                         *)
(* Each action is one step a task performs without suspension: a critical  *)
(* section under one of the three mutexes, or the completion of an awaited *)
(* call (HTTP request, backup command) together with the synchronous code  *)
(* that follows it up to the next await or lock.  Mutex::lock() fails only *)
(* when a holder panicked; no critical section of the program can panic,   *)
(* so the "failed to lock" branches are unreachable and are not modelled.  *)
(***************************************************************************)
EXTENDS Integers, Sequences, FiniteSets, TLC

(***************************************************************************)
(* Bounds of the model.                                                    *)
(***************************************************************************)
\* executions the supervisor dispatches in one behaviour of SchedSpec
MaxExecs == 3
\* executions spawned in one behaviour of QueueSpec
MaxSpawns == 2
\* minutes the clock advances past StartClock
MaxClock == 1
\* Capacity of the pending-report queue.  The program uses 500
\* (main.rs:157); every definition below is parametric in the capacity and
\* the model is explored at a small one.
PENDING_REPORTS_MAX == 2
\* Delivery attempts after which a report is dropped.  The program uses 20
\* (main.rs:158); explored at a small value.
PENDING_REPORT_MAX_ATTEMPTS == 3
\* High-water mark of the dedup set.  The program uses 20_000
\* (main.rs:2242); explored at a small value.
DedupHighWater == 1

None == [ok |-> FALSE]

Range(s) == {s[i] : i \in DOMAIN s}

Min(S) == CHOOSE x \in S : \A y \in S : x <= y

(***************************************************************************)
(* Local time.  The clock counts minutes since 2024-01-01T00:00 local      *)
(* time, a Monday, in a zone without daylight saving shifts; chrono's      *)
(* calendar is the proleptic Gregorian one.                                *)
(***************************************************************************)
StartClock == 23 * 60 + 59

IsLeapYear(y) == y % 4 = 0 /\ (y % 100 # 0 \/ y % 400 = 0)
DaysInYear(y) == IF IsLeapYear(y) THEN 366 ELSE 365
DaysInMonth(y, m) ==
    IF m = 2 THEN (IF IsLeapYear(y) THEN 29 ELSE 28)
    ELSE IF m \in {4, 6, 9, 11} THEN 30 ELSE 31

\* The date of day d of year y, counted from month m on (d from 0).
RECURSIVE DateFromMonth(_, _, _)
DateFromMonth(y, m, d) ==
    IF d < DaysInMonth(y, m) THEN [year |-> y, month |-> m, day |-> d + 1]
    ELSE DateFromMonth(y, m + 1, d - DaysInMonth(y, m))

\* The date d days after January 1st of year y (d from 0).
RECURSIVE DateFromYear(_, _)
DateFromYear(y, d) ==
    IF d < DaysInYear(y) THEN DateFromMonth(y, 1, d)
    ELSE DateFromYear(y + 1, d - DaysInYear(y))

\* chrono's num_days_from_sunday (0 = Sunday) of the day d days after
\* 2024-01-01
Weekday(d) == (1 + d) % 7

LocalNow(t) ==
    LET date == DateFromYear(2024, t \div 1440)
    IN  [year    |-> date.year,
         month   |-> date.month,
         day     |-> date.day,
         hour    |-> (t % 1440) \div 60,
         minute  |-> t % 60,
         weekday |-> Weekday(t \div 1440)]

\* Local::now().format("%Y%m%d%H%M")
MinuteStamp(t) ==
    LET n == LocalNow(t)
    IN  <<n.year, n.month, n.day, n.hour, n.minute>>

(***************************************************************************)
(* Cron strings.  A raw cron string is modelled after whitespace and comma *)
(* splitting: a sequence of fields, each a sequence of chunks.  A chunk is *)
(* a base ("star", a single number, a range, or text that is no number)    *)
(* and an optional step (absent, a number, or text that is no number).     *)
(***************************************************************************)
Star          == [kind |-> "star",   a |-> 0, b |-> 0]
Single(n)     == [kind |-> "single", a |-> n, b |-> n]
FromTo(a, b)  == [kind |-> "range",  a |-> a, b |-> b]
BadBase       == [kind |-> "bad",    a |-> 0, b |-> 0]
NoStep        == [kind |-> "none", n |-> 1]
Step(n)       == [kind |-> "num",  n |-> n]
BadStep       == [kind |-> "bad",  n |-> 0]
Chunk(base, step) == [base |-> base, step |-> step]
EmptyChunk    == [base |-> [kind |-> "empty", a |-> 0, b |-> 0], step |-> NoStep]

\* Faulty variant: a range whose start exceeds its end is let through
ParseChunkUnordered(chunk, min, max) ==
    IF chunk.base.kind = "empty" THEN None
    ELSE IF chunk.step.kind = "bad" THEN None
    ELSE LET step == IF chunk.step.kind = "num" THEN chunk.step.n ELSE 1
         IN IF step = 0 THEN None
            ELSE IF chunk.base.kind = "bad" THEN None
            ELSE LET range_min == IF chunk.base.kind = "star" THEN min ELSE chunk.base.a
                     range_max == IF chunk.base.kind = "star" THEN max ELSE chunk.base.b
                 IN IF range_min < min \/ range_max > max
                    THEN None
                    ELSE [ok |-> TRUE,
                          values |-> {v \in range_min..range_max :
                                          (v - range_min) % step = 0}]

\* Faulty variant: the end of a range is not held against the field's maximum
ParseChunkNoUpperCheck(chunk, min, max) ==
    IF chunk.base.kind = "empty" THEN None
    ELSE IF chunk.step.kind = "bad" THEN None
    ELSE LET step == IF chunk.step.kind = "num" THEN chunk.step.n ELSE 1
         IN IF step = 0 THEN None
            ELSE IF chunk.base.kind = "bad" THEN None
            ELSE LET range_min == IF chunk.base.kind = "star" THEN min ELSE chunk.base.a
                     range_max == IF chunk.base.kind = "star" THEN max ELSE chunk.base.b
                 IN IF range_min < min \/ range_min > range_max
                    THEN None
                    ELSE [ok |-> TRUE,
                          values |-> {v \in range_min..range_max :
                                          (v - range_min) % step = 0}]

\* One chunk of parse_cron_field: the set it contributes, or None.
ParseChunk(chunk, min, max) ==
    IF chunk.base.kind = "empty" THEN None
    ELSE IF chunk.step.kind = "bad" THEN None
    ELSE LET step == IF chunk.step.kind = "num" THEN chunk.step.n ELSE 1
         IN IF step = 0 THEN None
            ELSE IF chunk.base.kind = "bad" THEN None
            ELSE LET range_min == IF chunk.base.kind = "star" THEN min ELSE chunk.base.a
                     range_max == IF chunk.base.kind = "star" THEN max ELSE chunk.base.b
                 IN IF range_min < min \/ range_max > max \/ range_min > range_max
                    THEN None
                    ELSE [ok |-> TRUE,
                          values |-> {v \in range_min..range_max :
                                          (v - range_min) % step = 0}]

parse_cron_field(raw, min, max) ==
    LET parsed == [i \in DOMAIN raw |-> ParseChunk(raw[i], min, max)]
    IN IF \E i \in DOMAIN raw : ~parsed[i].ok
       THEN None
       ELSE [ok |-> TRUE,
             values |-> UNION {parsed[i].values : i \in DOMAIN raw}]

IsLiteralStar(field) ==
    Len(field) = 1 /\ field[1].base.kind = "star" /\ field[1].step.kind = "none"

parse_cron_expression(cron) ==
    IF Len(cron) # 5 THEN None
    ELSE LET minute       == parse_cron_field(cron[1], 0, 59)
             hour         == parse_cron_field(cron[2], 0, 23)
             day_of_month == parse_cron_field(cron[3], 1, 31)
             month        == parse_cron_field(cron[4], 1, 12)
             day_of_week  == parse_cron_field(cron[5], 0, 6)
         IN IF ~minute.ok \/ ~hour.ok \/ ~day_of_month.ok \/ ~month.ok
                \/ ~day_of_week.ok
            THEN None
            ELSE [ok |-> TRUE,
                  minute       |-> minute.values,
                  hour         |-> hour.values,
                  day_of_month |-> day_of_month.values,
                  month        |-> month.values,
                  day_of_week  |-> day_of_week.values,
                  is_day_of_month_wildcard |-> IsLiteralStar(cron[3]),
                  is_day_of_week_wildcard  |-> IsLiteralStar(cron[5])]

\* Faulty variant: with both day fields restricted, both must match
cron_matches_now_both(parsed, t) ==
    LET now == LocalNow(t)
        minute == t % 60
        hour == (t % 1440) \div 60
        dom_match == now.day \in parsed.day_of_month
        dow_match == now.weekday \in parsed.day_of_week
    IN IF minute \notin parsed.minute \/ hour \notin parsed.hour
           \/ now.month \notin parsed.month
       THEN FALSE
       ELSE IF parsed.is_day_of_month_wildcard /\ parsed.is_day_of_week_wildcard
       THEN TRUE
       ELSE IF parsed.is_day_of_month_wildcard THEN dow_match
       ELSE IF parsed.is_day_of_week_wildcard THEN dom_match
       ELSE dom_match /\ dow_match

\* cron_matches_now, with the instant it reads from Local::now() as t.
cron_matches_now(parsed, t) ==
    LET now == LocalNow(t)
        minute == t % 60
        hour == (t % 1440) \div 60
        dom_match == now.day \in parsed.day_of_month
        dow_match == now.weekday \in parsed.day_of_week
    IN IF minute \notin parsed.minute \/ hour \notin parsed.hour
           \/ now.month \notin parsed.month
       THEN FALSE
       ELSE IF parsed.is_day_of_month_wildcard /\ parsed.is_day_of_week_wildcard
       THEN TRUE
       ELSE IF parsed.is_day_of_month_wildcard THEN dow_match
       ELSE IF parsed.is_day_of_week_wildcard THEN dom_match
       ELSE dom_match \/ dow_match

(***************************************************************************)
(* compute_next_run_at, with the instant it reads from Local::now() as t   *)
(* (a minute; its seconds are zeroed by the function and play no role).    *)
(* The loop visits the cursor values t+1, t+2, ... one minute apart, at    *)
(* most SearchMinutes of them, and returns the first that passes its       *)
(* match test; the test is minute and hour of the cursor, then month and   *)
(* the day rule, so the first cursor that passes is the first minute that  *)
(* passes on the first day that passes, and is computed that way here.     *)
(***************************************************************************)
SearchMinutes == 60 * 24 * 366

\* cursor.to_rfc3339(), up to the fixed zone offset
Rfc3339(cursor) ==
    LET at == LocalNow(cursor)
    IN  <<at.year, at.month, at.day, at.hour, at.minute, 0>>

\* the month and day part of the loop's match test, for the day d days
\* after 2024-01-01
CursorDayMatches(parsed, d) ==
    LET date == DateFromYear(2024, d)
        dom_match == date.day \in parsed.day_of_month
        dow_match == Weekday(d) \in parsed.day_of_week
    IN /\ date.month \in parsed.month
       /\ IF parsed.is_day_of_month_wildcard /\ parsed.is_day_of_week_wildcard
          THEN TRUE
          ELSE IF parsed.is_day_of_month_wildcard THEN dow_match
          ELSE IF parsed.is_day_of_week_wildcard THEN dom_match
          ELSE dom_match \/ dow_match

\* the minutes of a day that pass the minute and hour part of the test
CursorTimes(parsed) == {h * 60 + m : h \in parsed.hour, m \in parsed.minute}

\* The first cursor in first..last that passes the test, on day `day` or
\* later; the days are gone through in stretches of 31.
RECURSIVE FirstMatch(_, _, _, _)
FirstMatch(parsed, day, first, last) ==
    LET times == CursorTimes(parsed)
        \* the minutes of day d that pass it and are visited
        TimesOn(d) ==
            IF first <= d * 1440 /\ d * 1440 + 1439 <= last
            THEN times
            ELSE {x \in times : first <= d * 1440 + x /\ d * 1440 + x <= last}
        days == {d \in day..Min({day + 30, last \div 1440}) :
                    CursorDayMatches(parsed, d) /\ TimesOn(d) # {}}
    IN IF days # {}
       THEN LET cursor == Min(days) * 1440 + Min(TimesOn(Min(days)))
            IN  [ok |-> TRUE, cursor |-> cursor, rfc3339 |-> Rfc3339(cursor)]
       ELSE IF day + 31 > last \div 1440 THEN None
       ELSE FirstMatch(parsed, day + 31, first, last)

\* Faulty variant: the cursor starts at now, not one minute later
compute_next_run_at_from_now(cron, t) ==
    LET parsed == parse_cron_expression(cron)
    IN IF ~parsed.ok THEN None
       ELSE FirstMatch(parsed, t \div 1440, t, t + SearchMinutes - 1)

compute_next_run_at(cron, t) ==
    LET parsed == parse_cron_expression(cron)
    IN IF ~parsed.ok THEN None
       ELSE FirstMatch(parsed, (t + 1) \div 1440, t + 1, t + SearchMinutes)

(***************************************************************************)
(* Plans the controller can hand out, and the answers of a plan fetch.     *)
(***************************************************************************)
AnyField == <<Chunk(Star, NoStep)>>
\* "* * * * *"
CronEveryMinute == <<AnyField, AnyField, AnyField, AnyField, AnyField>>
\* "*/2 * * * *"
CronEvenMinutes == <<<<Chunk(Star, Step(2))>>, AnyField, AnyField, AnyField, AnyField>>
\* "*/0 * * * *"
CronStepZero == <<<<Chunk(Star, Step(0))>>, AnyField, AnyField, AnyField, AnyField>>


\* Further cron strings a plan can carry.
At(n) == <<Chunk(Single(n), NoStep)>>
\* "30 2 * * *"
CronDaily0230 == <<At(30), At(2), AnyField, AnyField, AnyField>>
\* "0 0 1 * 1"
CronFirstOrMonday == <<At(0), At(0), At(1), AnyField, At(1)>>
\* "0 0 * * 1"
CronMonday == <<At(0), At(0), AnyField, AnyField, At(1)>>
\* "0 0 1 * *"
CronFirst == <<At(0), At(0), At(1), AnyField, AnyField>>
\* "0 0 */2 * 1"
CronOddDayOrMonday == <<At(0), At(0), <<Chunk(Star, Step(2))>>, AnyField, At(1)>>
\* "0 0 29 2 *"
CronLeapDay == <<At(0), At(0), At(29), At(2), AnyField>>
\* "0 0 30 2 *"
CronFeb30 == <<At(0), At(0), At(30), At(2), AnyField>>
\* "0 0 1 1 *"
CronNewYear == <<At(0), At(0), At(1), At(1), AnyField>>
\* "0,30 9-17/4 * * 1-5"
CronOfficeHours ==
    <<<<Chunk(Single(0), NoStep), Chunk(Single(30), NoStep)>>,
      <<Chunk(FromTo(9, 17), Step(4))>>, AnyField, AnyField,
      <<Chunk(FromTo(1, 5), NoStep)>>>>
\* "*/90 10-12/5 * * 6/7"
CronWideSteps ==
    <<<<Chunk(Star, Step(90))>>, <<Chunk(FromTo(10, 12), Step(5))>>, AnyField,
      AnyField, <<Chunk(Single(6), Step(7))>>>>
\* "0 0 32 * *"
CronDay32 == <<At(0), At(0), At(32), AnyField, AnyField>>
\* "* * * *"
CronFourFields == <<AnyField, AnyField, AnyField, AnyField>>
\* "* * * * * *"
CronSixFields == <<AnyField, AnyField, AnyField, AnyField, AnyField, AnyField>>
\* "5-3 * * * *"
CronBackwardRange ==
    <<<<Chunk(FromTo(5, 3), NoStep)>>, AnyField, AnyField, AnyField, AnyField>>
\* "60 * * * *"
CronMinute60 == <<At(60), AnyField, AnyField, AnyField, AnyField>>
\* "* 20-24 * * *"
CronHour24 ==
    <<AnyField, <<Chunk(FromTo(20, 24), NoStep)>>, AnyField, AnyField, AnyField>>
\* "* * 0 * *"
CronDayZero == <<AnyField, AnyField, At(0), AnyField, AnyField>>
\* "* * * 13 *"
CronMonth13 == <<AnyField, AnyField, AnyField, At(13), AnyField>>
\* "* * * * 7"
CronWeekday7 == <<AnyField, AnyField, AnyField, AnyField, At(7)>>
\* "mon * * * *"
CronBadBase ==
    <<<<Chunk(BadBase, NoStep)>>, AnyField, AnyField, AnyField, AnyField>>
\* "*/x * * * *"
CronBadStep ==
    <<<<Chunk(Star, BadStep)>>, AnyField, AnyField, AnyField, AnyField>>
\* "1,,2 * * * *"
CronEmptyChunk ==
    <<<<Chunk(Single(1), NoStep), EmptyChunk, Chunk(Single(2), NoStep)>>,
      AnyField, AnyField, AnyField, AnyField>>

ValidCrons ==
    {CronEveryMinute, CronEvenMinutes, CronDaily0230, CronFirstOrMonday,
     CronMonday, CronFirst, CronOddDayOrMonday, CronLeapDay, CronFeb30,
     CronNewYear, CronOfficeHours, CronWideSteps}
InvalidCrons ==
    {CronStepZero, CronDay32, CronFourFields, CronSixFields,
     CronBackwardRange, CronMinute60, CronHour24, CronDayZero, CronMonth13,
     CronWeekday7, CronBadBase, CronBadStep, CronEmptyChunk}
CronInputs == ValidCrons \cup InvalidCrons

\* Instants at which the cron evaluation is explored, as minutes since
\* 2024-01-01T00:00: Monday January 1st at 00:00, 02:30 and 09:00, Monday
\* January 8th, Tuesday January 9th, Thursday February 1st, Thursday
\* February 29th and Friday March 1st at 00:00, and StartClock.
CronInstants ==
    {0, 150, 540, StartClock, 7 * 1440, 8 * 1440, 31 * 1440, 59 * 1440,
     60 * 1440}

Plan(id, cron) == [id |-> id, cron |-> cron]
P1   == Plan("p1", CronEveryMinute)
P2   == Plan("p2", CronEvenMinutes)
PBad == Plan("p3", CronStepZero)

PlanIds == {"p1", "p2", "p3"}

FetchedLists == { <<>>, <<P1>>, <<P1, P2>>, <<PBad, P1>> }
FetchFailures == {"non_success", "transport_error", "undecodable"}
\* What one plan fetch ends in: the decoded list, or a failure.
FetchResponses ==
    {[failure |-> "none", plans |-> l] : l \in FetchedLists}
    \cup {[failure |-> f, plans |-> <<>>] : f \in FetchFailures}

(***************************************************************************)
(* Reports.  A PendingReport is {url, payload, attempts}.  The payload     *)
(* keeps the fields the queue logic can tell apart; rid is the identity of *)
(* the report value (the number of the execution that created it), which   *)
(* stands for the payload's otherwise opaque content (duration, output).   *)
(***************************************************************************)
ReportUrl(plan_id) == <<"api/workers/backup-plans", plan_id, "report">>

Payload(rid, status) ==
    [rid         |-> rid,
     status      |-> status,
     error       |-> IF status = "failed" THEN "error" ELSE "null",
     snapshot_id |-> IF status = "failed" THEN "null" ELSE "snap"]

PendingReport(url, payload, attempts) ==
    [url |-> url, payload |-> payload, attempts |-> attempts]

Rid(report) == report.payload.rid
Rids(reports) == {Rid(reports[i]) : i \in DOMAIN reports}

(***************************************************************************)
(* The state file pending_reports.json.  serde writes a JSON array of      *)
(* objects whose keys are the camelCase field names.                       *)
(***************************************************************************)
\* Faulty variant: the snapshot id is left out of the file
ToJsonWithoutSnapshot(report) ==
    [url      |-> report.url,
     payload  |-> [rid        |-> report.payload.rid,
                   status     |-> report.payload.status,
                   error      |-> report.payload.error,
                   snapshotId |-> "null"],
     attempts |-> report.attempts]

ToJson(report) ==
    [url      |-> report.url,
     payload  |-> [rid        |-> report.payload.rid,
                   status     |-> report.payload.status,
                   error      |-> report.payload.error,
                   snapshotId |-> report.payload.snapshot_id],
     attempts |-> report.attempts]

FromJson(obj) ==
    [url      |-> obj.url,
     payload  |-> [rid         |-> obj.payload.rid,
                   status      |-> obj.payload.status,
                   error       |-> obj.payload.error,
                   snapshot_id |-> obj.payload.snapshotId],
     attempts |-> obj.attempts]

MissingFile == [kind |-> "missing", body |-> <<>>]
CorruptFile == [kind |-> "corrupt", body |-> <<>>]
JsonFile(reports) ==
    [kind |-> "json", body |-> [i \in DOMAIN reports |-> ToJson(reports[i])]]

\* Faulty variant: the attempt counts are not restored
load_resetting_attempts(file) ==
    IF file.kind = "json"
    THEN [i \in DOMAIN file.body |-> [FromJson(file.body[i]) EXCEPT !.attempts = 1]]
    ELSE <<>>

load_pending_reports(file) ==
    IF file.kind = "json"
    THEN [i \in DOMAIN file.body |-> FromJson(file.body[i])]
    ELSE <<>>

\* Faulty variant: an empty list is not written
save_unless_empty(file, reports, write_ok) ==
    IF write_ok /\ reports # <<>> THEN JsonFile(reports) ELSE file

\* The file after save_pending_reports: fs::write either replaces the whole
\* file or fails and leaves it as it was (the failure is only logged).
save_pending_reports(file, reports, write_ok) ==
    IF write_ok THEN JsonFile(reports) ELSE file

(***************************************************************************)
(* The queue operations.                                                   *)
(***************************************************************************)
\* Faulty variant: the capacity check is missing
enqueue_without_eviction(queue, report) == Append(queue, report)

enqueue_pending_report(queue, report) ==
    LET kept == IF Len(queue) >= PENDING_REPORTS_MAX THEN Tail(queue) ELSE queue
    IN  Append(kept, report)

\* Faulty variant: a failed attempt is not counted
AfterAttemptNotCounted(still_pending, item, delivered) ==
    IF delivered THEN still_pending ELSE Append(still_pending, item)

\* Faulty variant: a delivered item is kept for the next pass all the same
AfterAttemptKeepsDelivered(still_pending, item, delivered) ==
    LET retried == [item EXCEPT !.attempts = @ + 1]
    IN IF retried.attempts > PENDING_REPORT_MAX_ATTEMPTS
       THEN still_pending
       ELSE Append(still_pending, retried)

\* Faulty variant: no item is given up, whatever its count
AfterAttemptNeverGivesUp(still_pending, item, delivered) ==
    IF delivered THEN still_pending
    ELSE Append(still_pending, [item EXCEPT !.attempts = @ + 1])

\* Faulty variant: a delivered item goes back to the queue as it is
AfterAttemptRequeuesDelivered(still_pending, item, delivered) ==
    IF delivered THEN Append(still_pending, item)
    ELSE LET retried == [item EXCEPT !.attempts = @ + 1]
         IN IF retried.attempts > PENDING_REPORT_MAX_ATTEMPTS
            THEN still_pending
            ELSE Append(still_pending, retried)

\* One drained item after its delivery attempt in the flush loop: the
\* still_pending list it leaves.
AfterAttempt(still_pending, item, delivered) ==
    IF delivered THEN still_pending
    ELSE LET retried == [item EXCEPT !.attempts = @ + 1]
         IN IF retried.attempts > PENDING_REPORT_MAX_ATTEMPTS
            THEN still_pending
            ELSE Append(still_pending, retried)

\* The re-insert loop as a fold, for the faulty variants below.
RECURSIVE FoldRequeue(_, _)
FoldRequeue(queue, still_pending) ==
    IF still_pending = <<>> THEN queue
    ELSE FoldRequeue(IF Len(queue) < PENDING_REPORTS_MAX
                     THEN Append(queue, Head(still_pending))
                     ELSE queue,
                     Tail(still_pending))

\* Faulty variant: the re-insertion goes through the capacity rule of
\* enqueue and evicts the head of a full queue
RECURSIVE RequeueEvicting(_, _)
RequeueEvicting(queue, still_pending) ==
    IF still_pending = <<>> THEN queue
    ELSE RequeueEvicting(enqueue_pending_report(queue, Head(still_pending)),
                         Tail(still_pending))

\* Faulty variant: the entries kept by a pass that ran into a failed
\* delivery are pushed only if the queue is empty
RequeueIntoEmptyQueue(queue, still_pending) ==
    IF queue = <<>> THEN FoldRequeue(queue, still_pending) ELSE queue

\* Faulty variant: the re-insert loop runs twice over still_pending
RequeueTwice(queue, still_pending) ==
    LET Once(q) == FoldRequeue(q, still_pending)
    IN  Once(Once(queue))

\* The re-insert loop at the end of a flush pass.
RECURSIVE Requeue(_, _)
Requeue(queue, still_pending) ==
    IF still_pending = <<>> THEN queue
    ELSE Requeue(IF Len(queue) < PENDING_REPORTS_MAX
                 THEN Append(queue, Head(still_pending))
                 ELSE queue,
                 Tail(still_pending))

(***************************************************************************)
(* The dedup step of the supervisor: the critical section on               *)
(* executed_plan_ticks.                                                    *)
(***************************************************************************)
MinuteTickKey(plan_id, t) == <<plan_id, MinuteStamp(t)>>

\* Faulty variant: the set is never cleared
DedupStepNeverClears(executed, key) ==
    [executed   |-> executed \cup {key},
     should_run |-> key \notin executed]

DedupStep(executed, key) ==
    LET cleared == IF Cardinality(executed) > DedupHighWater THEN {} ELSE executed
    IN  [executed   |-> IF key \in cleared THEN cleared ELSE cleared \cup {key},
         should_run |-> key \notin cleared]

(***************************************************************************)
(* State.                                                                  *)
(***************************************************************************)
VARIABLES
    clock,                  \* local time, in minutes
    synced_backup_plans,    \* AppState.synced_backup_plans (the Plan Cache)
    executed_plan_ticks,    \* AppState.executed_plan_ticks (the dedup set)
    pending_reports,        \* AppState.pending_reports (the Report Queue)
    state_file,             \* <state_dir>/pending_reports.json
    sup,                    \* execute_synced_backup_plans_loop: pc, plans, i
    flush,                  \* flush_pending_reports_loop: pc, items, still_pending
    runs,                   \* the spawned run_synced_backup_plan tasks
    spawned,                \* number of executions spawned so far
    restarted,              \* history: the process was restarted
    dispatched,             \* history: keys dispatched by this process, in order
    delivered,              \* history: rids of the reports this process delivered
    last_saved,             \* history: the list the last successful write held
    synced,                 \* history: a plan fetch succeeded in this process
    locks                   \* the holder of each of the three mutexes

vars == <<clock, synced_backup_plans, executed_plan_ticks, pending_reports,
          state_file, sup, flush, runs, spawned, restarted, dispatched,
          delivered, last_saved, synced, locks>>

\* The tasks, as holders of a mutex; Free when no task holds it.
Free       == <<>>
SyncTask   == <<"sync">>
SupTask    == <<"sup">>
FlushTask  == <<"flush">>
RunTask(e) == <<"run", e>>
NoLocks ==
    [synced_backup_plans |-> Free, executed_plan_ticks |-> Free,
     pending_reports |-> Free]

SupIdle   == [pc |-> "wait", plans |-> <<>>, i |-> 0]
FlushIdle == [pc |-> "wait", items |-> <<>>, still_pending |-> <<>>]
NoRuns    == [e \in {} |-> 0]

(***************************************************************************)
(* State files the process can find at startup: none, an unreadable one,   *)
(* or one a previous process of the agent wrote, holding the report of an  *)
(* earlier execution (rid 0) that has one retry left.                      *)
(***************************************************************************)
OldReport(attempts) ==
    PendingReport(ReportUrl("p2"), Payload(0, "failed"), attempts)

WrittenLists ==
    { <<OldReport(PENDING_REPORT_MAX_ATTEMPTS - 1)>> }

Init ==
    /\ clock = StartClock
    /\ synced_backup_plans = <<>>
    /\ executed_plan_ticks = {}
    /\ \/ \E reports \in WrittenLists :
             /\ state_file = JsonFile(reports)
             /\ last_saved = reports
       \/ /\ state_file \in {MissingFile, CorruptFile}
          /\ last_saved = <<>>
    /\ pending_reports = load_pending_reports(state_file)
    /\ sup = SupIdle
    /\ flush = FlushIdle
    /\ runs = NoRuns
    /\ spawned = 0
    /\ restarted = FALSE
    /\ dispatched = <<>>
    /\ delivered = {}
    /\ synced = FALSE
    /\ locks = NoLocks

(***************************************************************************)
(* Time passes.                                                            *)
(***************************************************************************)
Tick ==
    /\ clock < StartClock + MaxClock
    /\ clock' = clock + 1
    /\ UNCHANGED <<locks, synced_backup_plans, executed_plan_ticks, pending_reports,
                   state_file, sup, flush, runs, spawned, restarted, dispatched,
                   delivered, last_saved, synced>>

(***************************************************************************)
(* sync_backup_plans_loop: one pass, with the answer of the controller.    *)
(***************************************************************************)
\* Faulty variant: a failed fetch empties the cache
PlansClearedOnFailure(plans, response) ==
    IF response.failure # "none" THEN <<>> ELSE response.plans

\* Faulty variant: the fetched plans are added to the cached ones
PlansMergedOnSuccess(plans, response) ==
    IF response.failure # "none" THEN plans
    ELSE plans \o SelectSeq(response.plans,
                            LAMBDA p : \A i \in DOMAIN plans : plans[i].id # p.id)

PlansAfterSync(plans, response) ==
    IF response.failure # "none" THEN plans ELSE response.plans

SyncBackupPlansWith(response) ==
    /\ synced_backup_plans' = PlansAfterSync(synced_backup_plans, response)
    /\ synced' = (synced \/ response.failure = "none")
    /\ UNCHANGED <<locks, clock, executed_plan_ticks, pending_reports, state_file,
                   sup, flush, runs, spawned, restarted, dispatched,
                   delivered, last_saved>>

SyncBackupPlans == \E response \in FetchResponses : SyncBackupPlansWith(response)

(***************************************************************************)
(* execute_synced_backup_plans_loop.                                       *)
(***************************************************************************)
\* The loop position after plan i of the snapshot has been handled.
SupAdvance(s) ==
    IF s.i >= Len(s.plans) THEN SupIdle
    ELSE [pc |-> "evaluate", plans |-> s.plans, i |-> s.i + 1]

\* Faulty variant: the tick takes the plans out of the cache instead of
\* cloning them
SupervisorTickTakesCache ==
    /\ sup.pc = "wait"
    /\ spawned + Len(synced_backup_plans) <= MaxExecs
    /\ sup' = IF synced_backup_plans = <<>> THEN SupIdle
              ELSE [pc |-> "evaluate", plans |-> synced_backup_plans, i |-> 1]
    /\ synced_backup_plans' = <<>>
    /\ UNCHANGED <<locks, clock, executed_plan_ticks,
                   pending_reports, state_file, flush, runs, spawned, restarted,
                   dispatched, delivered, last_saved, synced>>

\* interval.tick() fires: snapshot the plan cache.
SupervisorTick ==
    /\ sup.pc = "wait"
    /\ spawned + Len(synced_backup_plans) <= MaxExecs
    /\ sup' = IF synced_backup_plans = <<>> THEN SupIdle
              ELSE [pc |-> "evaluate", plans |-> synced_backup_plans, i |-> 1]
    /\ UNCHANGED <<locks, clock, synced_backup_plans, executed_plan_ticks,
                   pending_reports, state_file, flush, runs, spawned, restarted,
                   dispatched, delivered, last_saved, synced>>

\* Faulty variant: an invalid cron string ends the pass
SupervisorEvaluateStopsOnInvalid ==
    /\ sup.pc = "evaluate"
    /\ LET plan   == sup.plans[sup.i]
           parsed == parse_cron_expression(plan.cron)
       IN sup' = IF ~parsed.ok THEN SupIdle
                 ELSE IF cron_matches_now(parsed, clock)
                 THEN [sup EXCEPT !.pc = "dispatch"]
                 ELSE SupAdvance(sup)
    /\ UNCHANGED <<locks, clock, synced_backup_plans, executed_plan_ticks,
                   pending_reports, state_file, flush, runs, spawned, restarted,
                   dispatched, delivered, last_saved, synced>>

\* parse_cron_expression and cron_matches_now for the plan at hand.
SupervisorEvaluate ==
    /\ sup.pc = "evaluate"
    /\ LET plan   == sup.plans[sup.i]
           parsed == parse_cron_expression(plan.cron)
       IN sup' = IF parsed.ok /\ cron_matches_now(parsed, clock)
                 THEN [sup EXCEPT !.pc = "dispatch"]
                 ELSE SupAdvance(sup)
    /\ UNCHANGED <<locks, clock, synced_backup_plans, executed_plan_ticks,
                   pending_reports, state_file, flush, runs, spawned, restarted,
                   dispatched, delivered, last_saved, synced>>

NewRun(plan) == [plan |-> plan, pc |-> "command", status |-> "none"]

\* Faulty variant: a plan whose previous execution still runs is not
\* dispatched again
SupervisorDispatchUnlessRunning ==
    /\ sup.pc = "dispatch"
    /\ LET plan == sup.plans[sup.i]
           key  == MinuteTickKey(plan.id, clock)
           step == DedupStep(executed_plan_ticks, key)
           busy == \E e \in DOMAIN runs : runs[e].plan.id = plan.id
       IN /\ executed_plan_ticks' = step.executed
          /\ IF step.should_run /\ ~busy
             THEN /\ spawned' = spawned + 1
                  /\ runs' = runs @@ ((spawned + 1) :> NewRun(plan))
                  /\ dispatched' = Append(dispatched, key)
             ELSE UNCHANGED <<spawned, runs, dispatched>>
    /\ sup' = SupAdvance(sup)
    /\ UNCHANGED <<locks, clock, synced_backup_plans, pending_reports, state_file,
                   flush, restarted, delivered, last_saved, synced>>

\* The key is computed from a second Local::now(); the dedup set decides.
SupervisorDispatch ==
    /\ sup.pc = "dispatch"
    /\ LET plan == sup.plans[sup.i]
           key  == MinuteTickKey(plan.id, clock)
           step == DedupStep(executed_plan_ticks, key)
       IN /\ executed_plan_ticks' = step.executed
          /\ IF step.should_run
             THEN /\ spawned' = spawned + 1
                  /\ runs' = runs @@ ((spawned + 1) :> NewRun(plan))
                  /\ dispatched' = Append(dispatched, key)
             ELSE UNCHANGED <<spawned, runs, dispatched>>
    /\ sup' = SupAdvance(sup)
    /\ UNCHANGED <<locks, clock, synced_backup_plans, pending_reports, state_file,
                   flush, restarted, delivered, last_saved, synced>>

(***************************************************************************)
(* run_synced_backup_plan.                                                 *)
(***************************************************************************)
\* Faulty variant: a failure of the command ends the task without a report
RunCommandEndsOnFailure(e, ok) ==
    /\ runs[e].pc = "command"
    /\ runs' = IF ok
               THEN [runs EXCEPT ![e].pc = "report", ![e].status = "success"]
               ELSE [x \in DOMAIN runs \ {e} |-> runs[x]]
    /\ UNCHANGED <<locks, clock, synced_backup_plans, executed_plan_ticks,
                   pending_reports, state_file, sup, flush, spawned, restarted,
                   dispatched, delivered, last_saved, synced>>

\* execute_backup_request returns, with Ok or Err; the report payload is
\* built.
RunCommandWith(e, ok) ==
    /\ runs[e].pc = "command"
    /\ runs' = [runs EXCEPT ![e].pc = "report",
                            ![e].status = IF ok THEN "success" ELSE "failed"]
    /\ UNCHANGED <<locks, clock, synced_backup_plans, executed_plan_ticks,
                   pending_reports, state_file, sup, flush, spawned, restarted,
                   dispatched, delivered, last_saved, synced>>

RunCommand(e) == \E ok \in BOOLEAN : RunCommandWith(e, ok)

\* The same step with the payload's next_run_at kept:
\* compute_next_run_at(&plan.cron) is evaluated when the command has
\* returned, at the instant the clock shows then.
RunCommandNextRun(e) ==
    /\ runs[e].pc = "command"
    /\ \E ok \in BOOLEAN :
          runs' = [runs EXCEPT ![e] =
                      [plan |-> @.plan, pc |-> "report",
                       status |-> IF ok THEN "success" ELSE "failed",
                       next_run_at |-> compute_next_run_at(@.plan.cron, clock)]]
    /\ UNCHANGED <<locks, clock, synced_backup_plans, executed_plan_ticks,
                   pending_reports, state_file, sup, flush, spawned, restarted,
                   dispatched, delivered, last_saved, synced>>

\* Faulty variant: the report is queued whatever the attempt ended in
QueueAfterReportAlways(queue, url, payload, should_queue) ==
    enqueue_pending_report(queue, PendingReport(url, payload, 1))

\* The queue after the immediate delivery attempt of a report.
QueueAfterReport(queue, url, payload, should_queue) ==
    IF should_queue
    THEN enqueue_pending_report(queue, PendingReport(url, payload, 1))
    ELSE queue

\* What a POST of a report can end in.
DeliveryResponses == {"success", "non_success", "transport_error"}

\* The immediate POST of the report returns; on failure the report is
\* queued.  The task ends.
RunReportWith(e, response) ==
    /\ runs[e].pc = "report"
    /\ pending_reports' =
           QueueAfterReport(pending_reports, ReportUrl(runs[e].plan.id),
                            Payload(e, runs[e].status), response # "success")
    /\ delivered' = IF response = "success" THEN delivered \cup {e}
                    ELSE delivered
    /\ runs' = [x \in DOMAIN runs \ {e} |-> runs[x]]
    /\ UNCHANGED <<locks, clock, synced_backup_plans, executed_plan_ticks, state_file,
                   sup, flush, spawned, restarted, dispatched, last_saved,
                   synced>>

RunReport(e) == \E response \in DeliveryResponses : RunReportWith(e, response)

(***************************************************************************)
(* flush_pending_reports_loop.                                             *)
(***************************************************************************)
\* Faulty variant: the pass works on a copy of the queue and leaves the
\* entries in it
FlushDrainClones ==
    /\ flush.pc = "wait"
    /\ flush' = IF pending_reports = <<>> THEN FlushIdle
                ELSE [pc |-> "deliver", items |-> pending_reports,
                      still_pending |-> <<>>]
    /\ UNCHANGED <<locks, clock, synced_backup_plans, executed_plan_ticks,
                   pending_reports, state_file, sup, runs, spawned, restarted,
                   dispatched, delivered, last_saved, synced>>

\* interval.tick() fires: drain the queue (queue.drain(..)); an empty drain
\* ends the pass at once, without touching the state file.
FlushDrain ==
    /\ flush.pc = "wait"
    /\ flush' = IF pending_reports = <<>> THEN FlushIdle
                ELSE [pc |-> "deliver", items |-> pending_reports,
                      still_pending |-> <<>>]
    /\ pending_reports' = <<>>
    /\ UNCHANGED <<locks, clock, synced_backup_plans, executed_plan_ticks, state_file,
                   sup, runs, spawned, restarted, dispatched, delivered,
                   last_saved, synced>>

\* The POST of the next drained item returns.
FlushDeliverWith(response) ==
    /\ flush.pc = "deliver"
    /\ flush.items # <<>>
    /\ LET item == Head(flush.items)
           ok   == response = "success"
       IN /\ flush' = [flush EXCEPT
                         !.items = Tail(@),
                         !.still_pending = AfterAttempt(@, item, ok)]
          /\ delivered' = IF ok THEN delivered \cup {Rid(item)} ELSE delivered
    /\ UNCHANGED <<locks, clock, synced_backup_plans, executed_plan_ticks,
                   pending_reports, state_file, sup, runs, spawned, restarted,
                   dispatched, last_saved, synced>>

FlushDeliver == \E response \in DeliveryResponses : FlushDeliverWith(response)

\* Faulty variant: a failed write of the state file ends the flush loop
FlushFinishStopsOnWriteFailure(write_ok) ==
    /\ flush.pc = "deliver"
    /\ flush.items = <<>>
    /\ pending_reports' = Requeue(pending_reports, flush.still_pending)
    /\ state_file' = save_pending_reports(state_file, pending_reports', write_ok)
    /\ last_saved' = IF write_ok THEN pending_reports' ELSE last_saved
    /\ flush' = IF write_ok THEN FlushIdle ELSE [FlushIdle EXCEPT !.pc = "exited"]
    /\ UNCHANGED <<locks, clock, synced_backup_plans, executed_plan_ticks, sup, runs,
                   spawned, restarted, dispatched, delivered, synced>>

\* All drained items were tried: re-insert what is still pending and write
\* the queue to the state file, under the queue lock.
FlushFinishWith(write_ok) ==
    /\ flush.pc = "deliver"
    /\ flush.items = <<>>
    /\ pending_reports' = Requeue(pending_reports, flush.still_pending)
    /\ state_file' = save_pending_reports(state_file, pending_reports', write_ok)
    /\ last_saved' = IF write_ok THEN pending_reports' ELSE last_saved
    /\ flush' = FlushIdle
    /\ UNCHANGED <<locks, clock, synced_backup_plans, executed_plan_ticks, sup, runs,
                   spawned, restarted, dispatched, delivered, synced>>

FlushFinish == \E write_ok \in BOOLEAN : FlushFinishWith(write_ok)

(***************************************************************************)
(* The process stops (at any moment) and is started again: main() builds   *)
(* a fresh AppState and spawns the loops; every task of the old process is *)
(* gone.                                                                   *)
(***************************************************************************)
QueueAtStartup(file) == load_pending_reports(file)

\* Faulty variant: an unreadable state file ends the new process at startup
RestartExitsOnBadFile ==
    /\ restarted' = TRUE
    /\ pending_reports' = QueueAtStartup(state_file)
    /\ synced_backup_plans' = <<>>
    /\ executed_plan_ticks' = {}
    /\ sup' = IF state_file.kind = "json" THEN SupIdle
              ELSE [SupIdle EXCEPT !.pc = "exited"]
    /\ flush' = IF state_file.kind = "json" THEN FlushIdle
                ELSE [FlushIdle EXCEPT !.pc = "exited"]
    /\ runs' = NoRuns
    /\ dispatched' = <<>>
    /\ delivered' = {}
    /\ synced' = FALSE
    /\ locks' = NoLocks
    /\ UNCHANGED <<clock, state_file, spawned, last_saved>>

Restart ==
    /\ restarted' = TRUE
    /\ pending_reports' = QueueAtStartup(state_file)
    /\ synced_backup_plans' = <<>>
    /\ executed_plan_ticks' = {}
    /\ sup' = SupIdle
    /\ flush' = FlushIdle
    /\ runs' = NoRuns
    /\ dispatched' = <<>>
    /\ delivered' = {}
    /\ synced' = FALSE
    /\ locks' = NoLocks
    /\ UNCHANGED <<clock, state_file, spawned, last_saved>>

(***************************************************************************)
(* The whole program.                                                      *)
(***************************************************************************)
Next ==
    \/ Tick
    \/ SyncBackupPlans
    \/ SupervisorTick
    \/ SupervisorEvaluate
    \/ SupervisorDispatch
    \/ \E e \in DOMAIN runs : RunCommand(e)
    \/ \E e \in DOMAIN runs : RunReport(e)
    \/ FlushDrain
    \/ FlushDeliver
    \/ FlushFinish
    \/ Restart

Spec == Init /\ [][Next]_vars

(***************************************************************************)
(* The two halves of the program, explored separately.  The scheduler      *)
(* (clock, plan cache, supervisor, dedup set) and the report pipeline      *)
(* (execution tasks, queue, flush loop, state file) meet in one place      *)
(* only, the tokio::spawn of an execution task: the supervisor never reads *)
(* the queue, and no execution or flush step reads the scheduler's state.  *)
(*                                                                         *)
(* SchedSpec is the scheduler together with the flush loop and restarts;    *)
(* the spawned executions are left running (the backup command has no      *)
(* time limit).  QueueSpec is the report pipeline with restarts; there the  *)
(* supervisor is reduced to its only effect on the pipeline, the spawn.    *)
(***************************************************************************)
SchedNext ==
    \/ Tick
    \/ SyncBackupPlans
    \/ SupervisorTick
    \/ SupervisorEvaluate
    \/ SupervisorDispatch
    \/ FlushDrain
    \/ FlushDeliver
    \/ FlushFinish
    \/ Restart

SchedSpec == Init /\ [][SchedNext]_vars

\* tokio::spawn(run_synced_backup_plan) for a plan the supervisor found due.
Spawn ==
    /\ spawned < MaxSpawns
    /\ \E plan \in {P1} :
          /\ spawned' = spawned + 1
          /\ runs' = runs @@ ((spawned + 1) :> NewRun(plan))
    /\ UNCHANGED <<locks, clock, synced_backup_plans, executed_plan_ticks,
                   pending_reports, state_file, sup, flush, restarted,
                   dispatched, delivered, last_saved, synced>>

QueueNext ==
    \/ Spawn
    \/ \E e \in DOMAIN runs : RunCommand(e)
    \/ \E e \in DOMAIN runs : RunReport(e)
    \/ FlushDrain
    \/ FlushDeliver
    \/ FlushFinish
    \/ Restart

QueueSpec == Init /\ [][QueueNext]_vars

(***************************************************************************)
(* SurgeSpec: the report pipeline from startup through a flush pass that   *)
(* meets a surge of executions: one execution more than the queue has room *)
(* for is spawned while the pass is under way, so that the enqueues of one *)
(* pass can overflow the queue.  The pass is followed to its end and the   *)
(* executions of the surge to theirs; the flush timer does not fire again  *)
(* once the surge has begun.                                               *)
(***************************************************************************)
SpawnSurge ==
    /\ flush.pc = "deliver"
    /\ spawned < PENDING_REPORTS_MAX + 1
    /\ \E plan \in {P1} :
          /\ spawned' = spawned + 1
          /\ runs' = runs @@ ((spawned + 1) :> NewRun(plan))
    /\ UNCHANGED <<locks, clock, synced_backup_plans, executed_plan_ticks,
                   pending_reports, state_file, sup, flush, restarted,
                   dispatched, delivered, last_saved, synced>>

SurgeNext ==
    \/ SpawnSurge
    \/ \E e \in DOMAIN runs : RunCommand(e)
    \/ \E e \in DOMAIN runs : RunReport(e)
    \/ (spawned = 0 /\ FlushDrain)
    \/ FlushDeliver
    \/ FlushFinish

SurgeSpec == Init /\ [][SurgeNext]_vars

(***************************************************************************)
(* The report pipeline with its scheduling: the flush timer keeps firing,  *)
(* every HTTP call returns, and the process is restarted at most once.     *)
(***************************************************************************)
FairQueueNext ==
    \/ Spawn
    \/ \E e \in DOMAIN runs : RunCommand(e)
    \/ \E e \in DOMAIN runs : RunReport(e)
    \/ FlushDrain
    \/ FlushDeliver
    \/ FlushFinish
    \/ (~restarted /\ Restart)

FairQueueSpec ==
    /\ Init
    /\ [][FairQueueNext]_vars
    /\ WF_vars(\E e \in DOMAIN runs : RunReport(e))
    /\ WF_vars(FlushDrain)
    /\ WF_vars(FlushDeliver)
    /\ WF_vars(FlushFinish)

(***************************************************************************)
(* The three loops and the execution tasks with their scheduling.  Each    *)
(* loop is a task of the runtime that is polled again whenever it can make *)
(* progress: a timer wait ends, an HTTP call returns (the client has a     *)
(* timeout), a step without await runs to its end.  The backup command has *)
(* no time limit, so nothing is assumed of it.  The process keeps running, *)
(* and the behaviour is followed within one minute of the clock.           *)
(***************************************************************************)
LoopNext ==
    \/ SyncBackupPlans
    \/ SupervisorTick
    \/ SupervisorEvaluate
    \/ SupervisorDispatch
    \/ \E e \in DOMAIN runs : RunCommand(e)
    \/ \E e \in DOMAIN runs : RunReport(e)
    \/ FlushDrain
    \/ FlushDeliver
    \/ FlushFinish

\* The supervisor's step out of the evaluation of a plan, whichever way
\* the cron string decides: to the dispatch or past the plan.  It is
\* enabled exactly when SupervisorEvaluate is (at the evaluation of a
\* plan), and the steps of LoopNext that it describes are the
\* SupervisorEvaluate steps: no other step of LoopNext changes sup there.
SupervisorEvaluated ==
    /\ sup.pc = "evaluate"
    /\ sup' \in {[sup EXCEPT !.pc = "dispatch"], SupAdvance(sup)}
    /\ UNCHANGED <<locks, clock, synced_backup_plans, executed_plan_ticks,
                   pending_reports, state_file, flush, runs, spawned, restarted,
                   dispatched, delivered, last_saved, synced>>

LoopSpec ==
    /\ Init
    /\ [][LoopNext]_vars
    /\ WF_vars(SupervisorTick)
    /\ WF_vars(SupervisorEvaluated)
    /\ WF_vars(SupervisorDispatch)
    /\ WF_vars(\E e \in DOMAIN runs : RunReport(e))
    /\ WF_vars(FlushDrain)
    /\ WF_vars(FlushDeliver)
    /\ WF_vars(FlushFinish)

(***************************************************************************)
(* The critical sections, step by step.  Above, a critical section is one  *)
(* step: it runs under its mutex from lock() to the end of the guard's     *)
(* scope and no other task can see inside.  Here every critical section    *)
(* is two steps, so that the states in which a mutex is held exist: the    *)
(* first takes the mutex (enabled only while it is free: lock() blocks)    *)
(* and runs the code under it up to its last statement, the second runs    *)
(* the last statement and drops the guard.                                 *)
(***************************************************************************)
\* sync_backup_plans_loop: the decoded answer is there; lock the cache and
\* assign it.
SyncLockStore ==
    /\ locks.synced_backup_plans = Free
    /\ \E plans \in FetchedLists :
          synced_backup_plans' =
              PlansAfterSync(synced_backup_plans,
                             [failure |-> "none", plans |-> plans])
    /\ synced' = TRUE
    /\ locks' = [locks EXCEPT !.synced_backup_plans = SyncTask]
    /\ UNCHANGED <<clock, executed_plan_ticks, pending_reports, state_file,
                   sup, flush, runs, spawned, restarted, dispatched,
                   delivered, last_saved>>

\* the `if let Ok(mut plans)` block ends
SyncUnlock ==
    /\ locks.synced_backup_plans = SyncTask
    /\ locks' = [locks EXCEPT !.synced_backup_plans = Free]
    /\ UNCHANGED <<clock, synced_backup_plans, executed_plan_ticks,
                   pending_reports, state_file, sup, flush, runs, spawned,
                   restarted, dispatched, delivered, last_saved, synced>>

\* interval.tick() fires: lock the cache and clone it.
SupLockSnapshot ==
    /\ sup.pc = "wait"
    /\ locks.synced_backup_plans = Free
    /\ spawned + Len(synced_backup_plans) <= MaxExecs
    /\ sup' = [pc |-> "snapshot", plans |-> synced_backup_plans, i |-> 0]
    /\ locks' = [locks EXCEPT !.synced_backup_plans = SupTask]
    /\ UNCHANGED <<clock, synced_backup_plans, executed_plan_ticks,
                   pending_reports, state_file, flush, runs, spawned, restarted,
                   dispatched, delivered, last_saved, synced>>

\* Faulty variant: the guard is bound for the whole pass (the loop iterates
\* over the locked cache instead of a clone)
SupKeepsSnapshotGuard ==
    /\ sup.pc = "snapshot"
    /\ sup' = SupAdvance(sup)
    /\ UNCHANGED <<locks, clock, synced_backup_plans, executed_plan_ticks,
                   pending_reports, state_file, flush, runs, spawned, restarted,
                   dispatched, delivered, last_saved, synced>>

\* the match on lock() ends: the guard is dropped; an empty snapshot ends
\* the pass
SupUnlockSnapshot ==
    /\ sup.pc = "snapshot"
    /\ sup' = SupAdvance(sup)
    /\ locks' = [locks EXCEPT !.synced_backup_plans = Free]
    /\ UNCHANGED <<clock, synced_backup_plans, executed_plan_ticks,
                   pending_reports, state_file, flush, runs, spawned, restarted,
                   dispatched, delivered, last_saved, synced>>

\* lock the dedup set; clear, test and insert under the lock
SupLockDedup ==
    /\ sup.pc = "dispatch"
    /\ locks.executed_plan_ticks = Free
    /\ LET plan == sup.plans[sup.i]
           step == DedupStep(executed_plan_ticks, MinuteTickKey(plan.id, clock))
       IN /\ executed_plan_ticks' = step.executed
          /\ sup' = [sup EXCEPT
                       !.pc = IF step.should_run THEN "should_run" ELSE "skip"]
    /\ locks' = [locks EXCEPT !.executed_plan_ticks = SupTask]
    /\ UNCHANGED <<clock, synced_backup_plans, pending_reports, state_file,
                   flush, runs, spawned, restarted, dispatched, delivered,
                   last_saved, synced>>

\* the `if let Ok(mut executed)` block ends; then the execution is spawned
SupUnlockDedup ==
    /\ sup.pc \in {"should_run", "skip"}
    /\ locks' = [locks EXCEPT !.executed_plan_ticks = Free]
    /\ IF sup.pc = "should_run"
       THEN /\ spawned' = spawned + 1
            /\ runs' = runs @@ ((spawned + 1) :> NewRun(sup.plans[sup.i]))
            /\ dispatched' =
                  Append(dispatched,
                         MinuteTickKey(sup.plans[sup.i].id, clock))
       ELSE UNCHANGED <<spawned, runs, dispatched>>
    /\ sup' = SupAdvance(sup)
    /\ UNCHANGED <<clock, synced_backup_plans, executed_plan_ticks,
                   pending_reports, state_file, flush, restarted, delivered,
                   last_saved, synced>>

\* the immediate POST failed: enqueue_pending_report locks the queue,
\* evicts and pushes
RunLockEnqueue(e) ==
    /\ runs[e].pc = "report"
    /\ locks.pending_reports = Free
    /\ \E response \in DeliveryResponses \ {"success"} :
          pending_reports' =
              QueueAfterReport(pending_reports, ReportUrl(runs[e].plan.id),
                               Payload(e, runs[e].status), TRUE)
    /\ runs' = [runs EXCEPT ![e].pc = "enqueued"]
    /\ locks' = [locks EXCEPT !.pending_reports = RunTask(e)]
    /\ UNCHANGED <<clock, synced_backup_plans, executed_plan_ticks, state_file,
                   sup, flush, spawned, restarted, dispatched, delivered,
                   last_saved, synced>>

\* enqueue_pending_report returns; the task ends
RunUnlock(e) ==
    /\ runs[e].pc = "enqueued"
    /\ runs' = [x \in DOMAIN runs \ {e} |-> runs[x]]
    /\ locks' = [locks EXCEPT !.pending_reports = Free]
    /\ UNCHANGED <<clock, synced_backup_plans, executed_plan_ticks,
                   pending_reports, state_file, sup, flush, spawned, restarted,
                   dispatched, delivered, last_saved, synced>>

\* interval.tick() fires: lock the queue and drain it
FlushLockDrain ==
    /\ flush.pc = "wait"
    /\ locks.pending_reports = Free
    /\ flush' = [pc |-> "drained", items |-> pending_reports,
                 still_pending |-> <<>>]
    /\ pending_reports' = <<>>
    /\ locks' = [locks EXCEPT !.pending_reports = FlushTask]
    /\ UNCHANGED <<clock, synced_backup_plans, executed_plan_ticks, state_file,
                   sup, runs, spawned, restarted, dispatched, delivered,
                   last_saved, synced>>

\* the match on lock() ends; an empty drain ends the pass
FlushUnlockDrain ==
    /\ flush.pc = "drained"
    /\ flush' = IF flush.items = <<>> THEN FlushIdle
                ELSE [flush EXCEPT !.pc = "deliver"]
    /\ locks' = [locks EXCEPT !.pending_reports = Free]
    /\ UNCHANGED <<clock, synced_backup_plans, executed_plan_ticks,
                   pending_reports, state_file, sup, runs, spawned, restarted,
                   dispatched, delivered, last_saved, synced>>

\* all drained items were tried: lock the queue and re-insert; the next
\* statement under the lock is save_pending_reports
FlushLockReinsert ==
    /\ flush.pc = "deliver"
    /\ flush.items = <<>>
    /\ locks.pending_reports = Free
    /\ pending_reports' = Requeue(pending_reports, flush.still_pending)
    /\ flush' = [FlushIdle EXCEPT !.pc = "save"]
    /\ locks' = [locks EXCEPT !.pending_reports = FlushTask]
    /\ UNCHANGED <<clock, synced_backup_plans, executed_plan_ticks, state_file,
                   sup, runs, spawned, restarted, dispatched, delivered,
                   last_saved, synced>>

\* fs::write returns, then the `if let Ok(mut queue)` block ends
FlushSaveUnlock ==
    /\ flush.pc = "save"
    /\ \E write_ok \in BOOLEAN :
          /\ state_file' =
                save_pending_reports(state_file, pending_reports, write_ok)
          /\ last_saved' = IF write_ok THEN pending_reports ELSE last_saved
    /\ flush' = FlushIdle
    /\ locks' = [locks EXCEPT !.pending_reports = Free]
    /\ UNCHANGED <<clock, synced_backup_plans, executed_plan_ticks,
                   pending_reports, sup, runs, spawned, restarted, dispatched,
                   delivered, synced>>

LockNext ==
    \/ SyncLockStore
    \/ SyncUnlock
    \/ SupLockSnapshot
    \/ SupUnlockSnapshot
    \/ SupervisorEvaluate
    \/ SupLockDedup
    \/ SupUnlockDedup
    \/ \E e \in DOMAIN runs : RunCommand(e)
    \/ \E e \in DOMAIN runs : RunReportWith(e, "success")
    \/ \E e \in DOMAIN runs : RunLockEnqueue(e)
    \/ \E e \in DOMAIN runs : RunUnlock(e)
    \/ FlushLockDrain
    \/ FlushUnlockDrain
    \/ FlushDeliver
    \/ FlushLockReinsert
    \/ FlushSaveUnlock

LockSpec == Init /\ [][LockNext]_vars

(***************************************************************************)
(* CronSpec: the cron evaluation.  The process holds one synced plan with  *)
(* any of the cron strings above, at any of the instants above; the        *)
(* supervisor evaluates it, dispatches it when it is due, and the          *)
(* execution computes next_run_at when its command has returned.           *)
(***************************************************************************)
CronInit ==
    /\ clock \in CronInstants
    /\ \E cron \in CronInputs : synced_backup_plans = <<Plan("p1", cron)>>
    /\ executed_plan_ticks = {}
    /\ state_file = MissingFile
    /\ last_saved = <<>>
    /\ pending_reports = load_pending_reports(state_file)
    /\ sup = SupIdle
    /\ flush = FlushIdle
    /\ runs = NoRuns
    /\ spawned = 0
    /\ restarted = FALSE
    /\ dispatched = <<>>
    /\ delivered = {}
    /\ synced = TRUE
    /\ locks = NoLocks

\* Time passes, up to MaxClock minutes from the instant explored.
Elapse ==
    /\ \E start \in CronInstants : start <= clock /\ clock < start + MaxClock
    /\ clock' = clock + 1
    /\ UNCHANGED <<locks, synced_backup_plans, executed_plan_ticks, pending_reports,
                   state_file, sup, flush, runs, spawned, restarted, dispatched,
                   delivered, last_saved, synced>>

CronNext ==
    \/ Elapse
    \/ SupervisorTick
    \/ SupervisorEvaluate
    \/ SupervisorDispatch
    \/ \E e \in DOMAIN runs : RunCommandNextRun(e)

CronSpec == CronInit /\ [][CronNext]_vars

(***************************************************************************)
(* Properties.                                                             *)
(***************************************************************************)
\* Number of dispatches under a key in a dispatch history.
DispatchCount(history, key) ==
    Cardinality({i \in DOMAIN history : history[i] = key})

\* C1: for every plan id and every local calendar minute, the supervisor
\* (of one process) dispatches at most one execution under that plan and
\* minute, however many ticks fall inside the minute and however many other
\* plans are dispatched in between.
C1_AtMostOncePerMinute ==
    \A i, j \in DOMAIN dispatched : dispatched[i] = dispatched[j] => i = j

\* C2: whenever a supervisor tick reaches the dedup step for a plan whose
\* cron is "* * * * *", the minute of that step has exactly one dispatched
\* execution of the plan afterwards: the first tick of the minute
\* dispatches it, no later tick of the minute dispatches it again, and the
\* next minute gets one more.
C2_ExactlyOncePerMinute ==
    [][(SupervisorDispatch /\ sup.plans[sup.i].cron = CronEveryMinute)
          => LET key == MinuteTickKey(sup.plans[sup.i].id, clock)
             IN  DispatchCount(dispatched', key) = 1]_vars

(***************************************************************************)
(* Where a report is.                                                      *)
(***************************************************************************)
\* rids held by the running flush pass
FlushRids == Rids(flush.items) \cup Rids(flush.still_pending)
\* rids pending in the process: queued, or drained by the running pass
PendingRids == Rids(pending_reports) \cup FlushRids
\* rids in the state file
FileRids ==
    IF state_file.kind = "json"
    THEN {state_file.body[i].payload.rid : i \in DOMAIN state_file.body}
    ELSE {}
\* executions whose report is built and in its immediate delivery attempt
Reporting == {e \in DOMAIN runs : runs[e].pc = "report"}
\* executions of this behaviour that completed and built their report
Produced ==
    {e \in 1..spawned : e \notin DOMAIN runs \/ runs[e].pc = "report"}

\* C3 (as claimed), in the form a finite run refutes: while the process
\* keeps running, a report of a completed execution that the controller
\* has not accepted is still held somewhere (by its task, in the queue, in
\* the running flush pass or in the state file), so that it can still be
\* delivered.
C3_ReportNeverLost ==
    ~restarted =>
        \A e \in Produced :
            e \in delivered \/ e \in Reporting \/ e \in PendingRids \/ e \in FileRids

\* C4: the queue in memory and the list in the state file never hold more
\* than PENDING_REPORTS_MAX entries.
C4_QueueBounded ==
    /\ Len(pending_reports) <= PENDING_REPORTS_MAX
    /\ state_file.kind = "json" => Len(state_file.body) <= PENDING_REPORTS_MAX

\* a full queue and a full state file, with an execution about to enqueue
C4_Witness ==
    /\ Len(pending_reports) = PENDING_REPORTS_MAX
    /\ state_file.kind = "json"
    /\ Len(state_file.body) = PENDING_REPORTS_MAX
    /\ Reporting # {}


\* C5: an enqueue into a full queue evicts exactly one entry, the report
\* created earliest (smallest rid), and admits the new entry at the tail;
\* an enqueue into a queue that is not full evicts nothing.
C5_EnqueueEvictsOldest ==
    [][\A e \in DOMAIN runs :
          (RunReport(e) /\ e \in Rids(pending_reports'))
          => LET before == Rids(pending_reports)
                 after  == Rids(pending_reports')
             IN /\ Rid(pending_reports'[Len(pending_reports')]) = e
                /\ IF Len(pending_reports) >= PENDING_REPORTS_MAX
                   THEN after = (before \ {Min(before)}) \cup {e}
                   ELSE after = before \cup {e}]_vars

\* C6: every entry pending when the process stops (queued, or drained by
\* the running flush pass and not yet delivered or dropped) is in the
\* queue again after the restart.
C6_PendingSurvivesRestart ==
    [][Restart => PendingRids \subseteq Rids(pending_reports')]_vars

Take(seq, n) == SubSeq(seq, 1, IF n < Len(seq) THEN n ELSE Len(seq))

\* what C8 says of a failed delivery in a flush pass: the attempt count goes
\* up by exactly one, and the entry is kept for re-insertion exactly when
\* the new count is at most PENDING_REPORT_MAX_ATTEMPTS
FailedAttemptCounted ==
    \A response \in DeliveryResponses \ {"success"} :
        FlushDeliverWith(response)
        => LET item    == Head(flush.items)
               retried == [item EXCEPT !.attempts = item.attempts + 1]
           IN flush'.still_pending =
                 IF retried.attempts <= PENDING_REPORT_MAX_ATTEMPTS
                 THEN Append(flush.still_pending, retried)
                 ELSE flush.still_pending

\* no entry with more than PENDING_REPORT_MAX_ATTEMPTS attempts is in the
\* queue or in the state file
NoExpiredEntry ==
    /\ \A i \in DOMAIN pending_reports :
          pending_reports[i].attempts <= PENDING_REPORT_MAX_ATTEMPTS
    /\ state_file.kind = "json" =>
          \A i \in DOMAIN state_file.body :
              state_file.body[i].attempts <= PENDING_REPORT_MAX_ATTEMPTS

\* C8 (as claimed): a failed entry gets attempts + 1, is re-queued when the
\* new count is at most PENDING_REPORT_MAX_ATTEMPTS and dropped when it is
\* greater; an entry past the maximum is never in the queue or the file.
C8_FailedEntryRequeued ==
    /\ [][FailedAttemptCounted]_vars
    /\ [][FlushFinish =>
             pending_reports' = pending_reports \o flush.still_pending]_vars
    /\ []NoExpiredEntry

\* C8 (amended): as claimed, except that the re-insertion at the end of the
\* pass admits the kept entries, in order, only while the queue holds fewer
\* than PENDING_REPORTS_MAX entries; the others are dropped.
C8_FailedEntryRequeuedIfRoom ==
    /\ [][FailedAttemptCounted]_vars
    /\ [][FlushFinish =>
             pending_reports' =
                 pending_reports \o
                 Take(flush.still_pending,
                      PENDING_REPORTS_MAX - Len(pending_reports))]_vars
    /\ []NoExpiredEntry

\* a pass has ended that re-queued the old report with its count raised to
\* the maximum and wrote it to the file, and a second pass has then dropped it
C8_Witness ==
    /\ last_saved = <<OldReport(PENDING_REPORT_MAX_ATTEMPTS)>>
    /\ flush.pc = "deliver"
    /\ flush.items = <<>>
    /\ flush.still_pending = <<>>
    /\ 0 \notin delivered
    /\ spawned = 0
    /\ ~restarted

C10_ImmediateThenEnqueue ==
    /\ [](\A e \in DOMAIN runs : e \notin PendingRids /\ e \notin delivered)
    /\ [][\A e \in DOMAIN runs : \A response \in DeliveryResponses :
            RunReportWith(e, response)
            => IF response = "success"
               THEN /\ pending_reports' = pending_reports
                    /\ e \in delivered'
               ELSE /\ e \notin delivered'
                    /\ Cardinality({i \in DOMAIN pending_reports' :
                                      Rid(pending_reports'[i]) = e}) = 1
                    /\ pending_reports'[Len(pending_reports')] =
                          PendingReport(ReportUrl(runs[e].plan.id),
                                        Payload(e, runs[e].status), 1)]_vars

\* one finished execution was delivered at once and is not queued, another
\* finished execution is queued with attempts = 1
C10_Witness ==
    \E e1, e2 \in 1..spawned :
        /\ e1 \notin DOMAIN runs /\ e2 \notin DOMAIN runs
        /\ e1 \in delivered /\ e1 \notin PendingRids
        /\ \E i \in DOMAIN pending_reports :
              Rid(pending_reports[i]) = e2 /\ pending_reports[i].attempts = 1

\* C11: a plan fetch that ends in a non-success response, a transport error
\* or an undecodable body leaves the plan cache exactly as it was.
C11_FailedFetchKeepsCache ==
    [][\A response \in FetchResponses :
          response.failure # "none" /\ SyncBackupPlansWith(response)
          => synced_backup_plans' = synced_backup_plans]_vars

\* a filled cache after a successful fetch, the supervisor in the middle of
\* a pass over its snapshot: the state in which the next fetch can fail
C11_Witness ==
    /\ synced
    /\ synced_backup_plans = <<P1, P2>>
    /\ sup.pc = "dispatch"

C13_BadFileStartsEmpty ==
    /\ [][Restart /\ state_file.kind \in {"missing", "corrupt"}
          => /\ pending_reports' = <<>>
             /\ sup' = SupIdle
             /\ flush' = FlushIdle]_vars
    /\ [](~restarted /\ state_file.kind \in {"missing", "corrupt"}
          => pending_reports = <<>> /\ sup.pc # "exited" /\ flush.pc # "exited")

\* a process restarted on a corrupt state file has an empty queue, fetched
\* plans and its supervisor is dispatching
C13_Witness ==
    /\ restarted
    /\ state_file = CorruptFile
    /\ pending_reports = <<>>
    /\ synced
    /\ dispatched # <<>>
    /\ sup.pc = "dispatch"

\* The tasks of the process and the mutexes each one holds.
Tasks == {SyncTask, SupTask, FlushTask} \cup {RunTask(e) : e \in DOMAIN runs}
Holds(task) == {l \in DOMAIN locks : locks[l] = task}

\* A task is suspended or performs I/O: at its timer, in an HTTP call, in
\* the backup command, or in the write of the state file.
InIO(task) ==
    CASE task = SyncTask  -> locks.synced_backup_plans # SyncTask
      [] task = SupTask   -> sup.pc = "wait"
      [] task = FlushTask -> \/ flush.pc \in {"wait", "save"}
                             \/ flush.pc = "deliver" /\ flush.items # <<>>
      [] OTHER            -> runs[task[2]].pc \in {"command", "report"}

\* C14: no task holds one of the three locks while it performs I/O or is
\* suspended (HTTP call, backup command, timer wait, state file write).
C14_NoLockAcrossIO ==
    \A task \in Tasks : InIO(task) => Holds(task) = {}

\* C15: no task ever holds two of the three locks, the supervisor never
\* takes the queue lock and the flush loop never takes the cache or the
\* dedup lock, and whoever holds a lock can take its next step and release
\* it: no task waits forever for a lock.
C15_OneLockAtATime ==
    /\ \A task \in Tasks : Cardinality(Holds(task)) <= 1
    /\ locks.pending_reports # SupTask
    /\ FlushTask \notin {locks.synced_backup_plans, locks.executed_plan_ticks}
    /\ locks.synced_backup_plans = SyncTask => ENABLED SyncUnlock
    /\ locks.synced_backup_plans = SupTask => ENABLED SupUnlockSnapshot
    /\ locks.executed_plan_ticks = SupTask => ENABLED SupUnlockDedup
    /\ locks.pending_reports = FlushTask
          => ENABLED (FlushUnlockDrain \/ FlushSaveUnlock)
    /\ \A e \in DOMAIN runs :
          locks.pending_reports = RunTask(e) => ENABLED RunUnlock(e)

\* all three locks held at the same moment, by three different tasks: the
\* sync loop, the supervisor in its dedup step and an execution enqueueing
\* its report, while the flush loop waits for the queue lock
C15_Witness ==
    /\ locks.synced_backup_plans = SyncTask
    /\ locks.executed_plan_ticks = SupTask
    /\ \E e \in DOMAIN runs : locks.pending_reports = RunTask(e)
    /\ flush.pc = "deliver" /\ flush.items = <<>>

\* C16: executions are independent.  While executions hang (in SchedSpec no
\* execution ever returns) the supervisor is never held up, a due plan whose
\* key is new is dispatched whatever is still running (another plan's
\* execution, or its own from an earlier minute), and no step short of a
\* process restart ends or changes a running execution.
C16_ExecutionsIndependent ==
    /\ [](sup.pc = "evaluate" => ENABLED SupervisorEvaluate)
    /\ [](sup.pc = "dispatch" => ENABLED SupervisorDispatch)
    /\ [][SupervisorDispatch =>
            LET plan == sup.plans[sup.i]
                step == DedupStep(executed_plan_ticks,
                                  MinuteTickKey(plan.id, clock))
            IN step.should_run =>
                  /\ DOMAIN runs' = DOMAIN runs \cup {spawned + 1}
                  /\ runs'[spawned + 1].plan = plan]_vars
    /\ [][Restart \/ \A e \in DOMAIN runs :
                        e \in DOMAIN runs' /\ runs'[e] = runs[e]]_vars

\* three executions are still running: two of plan p1, dispatched in two
\* different minutes, and one of plan p2
C16_Witness ==
    \E e1, e2, e3 \in DOMAIN runs :
        /\ e1 < e2
        /\ runs[e1].plan.id = "p1" /\ runs[e2].plan.id = "p1"
        /\ runs[e3].plan.id = "p2"
        /\ \A e \in {e1, e2, e3} : runs[e].pc = "command"
        /\ \E i, j \in DOMAIN dispatched :
              /\ dispatched[i][1] = "p1" /\ dispatched[j][1] = "p1"
              /\ dispatched[i][2] # dispatched[j][2]

(***************************************************************************)
(* C17.  parse accepts a cron string exactly when it has 5 fields and      *)
(* every field is a list of `*`, a single integer or a range a-b, each     *)
(* with an optional /step with step >= 1, all values inside the field's    *)
(* range and a <= b: for every plan the process holds, parsing its cron    *)
(* succeeds exactly when the string is of that form; the supervisor gets   *)
(* to dispatch, and an execution exists, only for a string of that form;   *)
(* `0 0 1 * 1` is accepted, `0 0 32 * *` and `*/0 * * * *` are rejected.   *)
(***************************************************************************)
WellFormedChunk(chunk, min, max) ==
    /\ \/ chunk.step.kind = "none"
       \/ chunk.step.kind = "num" /\ chunk.step.n >= 1
    /\ \/ chunk.base.kind = "star"
       \/ chunk.base.kind = "single" /\ chunk.base.a \in min..max
       \/ /\ chunk.base.kind = "range"
          /\ chunk.base.a \in min..max
          /\ chunk.base.b \in min..max
          /\ chunk.base.a <= chunk.base.b

\* the claimed ranges of minute, hour, day-of-month, month, day-of-week
FieldMin == <<0, 0, 1, 1, 0>>
FieldMax == <<59, 23, 31, 12, 6>>

WellFormedCron(cron) ==
    /\ Len(cron) = 5
    /\ \A f \in 1..5 :
          /\ Len(cron[f]) >= 1
          /\ \A i \in DOMAIN cron[f] :
                WellFormedChunk(cron[f][i], FieldMin[f], FieldMax[f])

C17_ParseAcceptsWellFormed ==
    /\ \A plan \in Range(synced_backup_plans) \cup Range(sup.plans) :
          parse_cron_expression(plan.cron).ok <=> WellFormedCron(plan.cron)
    /\ sup.pc = "dispatch" => WellFormedCron(sup.plans[sup.i].cron)
    /\ \A e \in DOMAIN runs : WellFormedCron(runs[e].plan.cron)
    /\ parse_cron_expression(CronFirstOrMonday).ok
    /\ ~parse_cron_expression(CronDay32).ok
    /\ ~parse_cron_expression(CronStepZero).ok

\* the supervisor has parsed `0 0 1 * 1` and found it due
C17_Witness ==
    /\ sup.pc = "dispatch"
    /\ sup.plans[sup.i].cron = CronFirstOrMonday

(***************************************************************************)
(* C18.  match(spec, instant) is true exactly when minute, hour and month  *)
(* are in their sets and the day rule holds: true when both day fields are *)
(* the literal `*`, day-of-week membership when only day-of-month is `*`,  *)
(* day-of-month membership when only day-of-week is `*`, and either        *)
(* membership when neither is the literal `*` (`*/2` is no wildcard).      *)
(* For every plan held and every instant the match computed is the one     *)
(* claimed, the supervisor finds a plan due exactly when it parses and     *)
(* matches as claimed, and `0 0 1 * 1` matches midnight of every 1st of a  *)
(* month and of every Monday of 2024, and no other midnight.               *)
(***************************************************************************)
ClaimedDayRule(cron, parsed, at) ==
    LET dom_star == cron[3] = <<Chunk(Star, NoStep)>>
        dow_star == cron[5] = <<Chunk(Star, NoStep)>>
        dom == at.day \in parsed.day_of_month
        dow == at.weekday \in parsed.day_of_week
    IN CASE dom_star /\ dow_star   -> TRUE
         [] dom_star /\ ~dow_star  -> dow
         [] ~dom_star /\ dow_star  -> dom
         [] ~dom_star /\ ~dow_star -> dom \/ dow

ClaimedMatch(cron, t) ==
    LET parsed == parse_cron_expression(cron)
        at == LocalNow(t)
    IN /\ at.minute \in parsed.minute
       /\ at.hour \in parsed.hour
       /\ at.month \in parsed.month
       /\ ClaimedDayRule(cron, parsed, at)

C18_MatchRule ==
    /\ \A d \in 0..365 :
          cron_matches_now(parse_cron_expression(CronFirstOrMonday), d * 1440)
             <=> (DateFromYear(2024, d).day = 1 \/ Weekday(d) = 1)
    /\ [](\A plan \in Range(synced_backup_plans) :
             parse_cron_expression(plan.cron).ok =>
                (cron_matches_now(parse_cron_expression(plan.cron), clock)
                    <=> ClaimedMatch(plan.cron, clock)))
    /\ [][SupervisorEvaluate =>
             (sup'.pc = "dispatch"
                 <=> /\ parse_cron_expression(sup.plans[sup.i].cron).ok
                     /\ ClaimedMatch(sup.plans[sup.i].cron, clock))]_vars

\* `0 0 1 * 1` was found due at midnight of Monday, January 8th
C18_Witness ==
    /\ sup.pc = "dispatch"
    /\ sup.plans[sup.i].cron = CronFirstOrMonday
    /\ executed_plan_ticks = {}
    /\ clock = 7 * 1440

(***************************************************************************)
(* C19.  nextRunAfter(spec, from) returns the earliest minute-aligned      *)
(* instant, seconds zero, not before the start of the minute after from,   *)
(* that satisfies match, looking at most 60*24*366 minutes ahead: whenever *)
(* an execution computes next_run_at and gets an instant, that instant is  *)
(* strictly later than the instant of the computation and at most          *)
(* 60*24*366 minutes later, its seconds are zero, it matches, and no       *)
(* minute between the two matches.  For `30 2 * * *` from                  *)
(* 2024-01-01T00:00:00 the result is 2024-01-01T02:30:00.                  *)
(***************************************************************************)
C19_NextRunIsEarliestMatch ==
    /\ compute_next_run_at(CronDaily0230, 0).ok
    /\ compute_next_run_at(CronDaily0230, 0).rfc3339 = <<2024, 1, 1, 2, 30, 0>>
    /\ [][\A e \in DOMAIN runs :
             (/\ runs[e].pc = "command"
              /\ runs'[e].pc = "report"
              /\ runs'[e].next_run_at.ok) =>
                LET next   == runs'[e].next_run_at
                    parsed == parse_cron_expression(runs[e].plan.cron)
                IN /\ next.cursor > clock
                   /\ next.cursor <= clock + 60 * 24 * 366
                   /\ next.rfc3339[6] = 0
                   /\ next.rfc3339 = <<LocalNow(next.cursor).year,
                                       LocalNow(next.cursor).month,
                                       LocalNow(next.cursor).day,
                                       LocalNow(next.cursor).hour,
                                       LocalNow(next.cursor).minute, 0>>
                   /\ cron_matches_now(parsed, next.cursor)
                   /\ \A c \in (clock + 1)..(next.cursor - 1) :
                         ~cron_matches_now(parsed, c)]_vars

\* `0 0 1 * 1`, run at midnight of Monday, January 1st, is next due at
\* midnight of Monday, January 8th
C19_Witness ==
    \E e \in DOMAIN runs :
       /\ runs[e].pc = "report"
       /\ runs[e].plan.cron = CronFirstOrMonday
       /\ runs[e].next_run_at.ok
       /\ runs[e].next_run_at.rfc3339 = <<2024, 1, 8, 0, 0, 0>>

(***************************************************************************)
(* C20.  nextRunAfter returns none only for a spec that no instant         *)
(* satisfies, which does not occur for a spec accepted by parse: for every *)
(* validly parsed spec and every starting instant it returns an instant.   *)
(* Every execution that has computed next_run_at for a plan whose cron     *)
(* parses holds an instant.                                                *)
(***************************************************************************)
C20_ParsedSpecHasNextRun ==
    \A e \in DOMAIN runs :
       (runs[e].pc = "report" /\ parse_cron_expression(runs[e].plan.cron).ok)
          => runs[e].next_run_at.ok

(***************************************************************************)
(* C22 (as claimed).  At the end of every flush pass, also one whose       *)
(* remainder is empty, the state file is overwritten with exactly the      *)
(* entries of the queue in memory: after each pass the persisted list      *)
(* equals the queue.                                                       *)
(***************************************************************************)
\* the steps that end a flush pass: the end of a pass that drained
\* something, and a drain that found the queue empty
FlushPassEnds == FlushFinish \/ (FlushDrain /\ pending_reports = <<>>)

C23_PresentKeyNeverDispatched ==
    [][(/\ SupervisorDispatch
        /\ MinuteTickKey(sup.plans[sup.i].id, clock) \in executed_plan_ticks)
          => /\ spawned' = spawned
             /\ dispatched' = dispatched
             /\ executed_plan_ticks' = executed_plan_ticks]_vars

(***************************************************************************)
(* C24 (as claimed).  When a flush pass re-inserts a failed entry and the  *)
(* queue already holds PENDING_REPORTS_MAX entries, the capacity rule of   *)
(* enqueue applies: the head of the queue is evicted and the re-inserted   *)
(* entry is admitted.                                                      *)
(***************************************************************************)
C24_ReinsertEvictsOldest ==
    [][(/\ FlushFinish
        /\ flush.still_pending # <<>>
        /\ Len(pending_reports) >= PENDING_REPORTS_MAX)
          => /\ Rids(flush.still_pending) \subseteq Rids(pending_reports')
             /\ Rid(Head(pending_reports)) \notin Rids(pending_reports')]_vars

\* C24 (amended): when a flush pass re-inserts a failed entry and the queue
\* already holds PENDING_REPORTS_MAX entries, the entry is not admitted: it
\* is dropped and the queue keeps the entries it holds, none evicted; while
\* the queue holds fewer, the failed entries are appended in order.  The
\* queue never exceeds PENDING_REPORTS_MAX entries either way.
C24_ReinsertDropsWhenFull ==
    /\ [][(/\ FlushFinish
           /\ flush.still_pending # <<>>
           /\ Len(pending_reports) >= PENDING_REPORTS_MAX)
             => pending_reports' = pending_reports]_vars
    /\ [][FlushFinish =>
             /\ Len(pending_reports') <= PENDING_REPORTS_MAX
             /\ \A i \in DOMAIN pending_reports :
                   pending_reports'[i] = pending_reports[i]
             /\ \A i \in DOMAIN flush.still_pending :
                   Len(pending_reports) + i <= PENDING_REPORTS_MAX =>
                      pending_reports'[Len(pending_reports) + i]
                         = flush.still_pending[i]]_vars

\* a pass has tried the old report in vain, the executions have filled the
\* queue meanwhile, and the pass has ended without the old report
C24_Witness ==
    /\ flush.pc = "wait"
    /\ Len(pending_reports) = PENDING_REPORTS_MAX
    /\ 0 \notin Rids(pending_reports)
    /\ 0 \notin delivered
    /\ last_saved = pending_reports
    /\ Rids(pending_reports) = 1..PENDING_REPORTS_MAX
    /\ ~restarted

(***************************************************************************)
(* C25.  The Report Queue is FIFO by report age: an entry first enqueued   *)
(* before another is ahead of it in the queue, and every flush pass        *)
(* attempts it first, also after failed entries were re-queued while new   *)
(* reports were enqueued.  The report the state file held at startup       *)
(* (rid 0) was first enqueued, by an earlier process, before every report  *)
(* of an execution of this behaviour: it is ahead of every other entry in  *)
(* the queue and in the list a flush pass goes through.                    *)
(***************************************************************************)
OldestFirst(reports) ==
    \A i, j \in DOMAIN reports :
       (Rid(reports[i]) = 0 /\ Rid(reports[j]) # 0) => i < j

C25_QueueIsFifoByAge ==
    /\ OldestFirst(pending_reports)
    /\ OldestFirst(flush.items)

(***************************************************************************)
(* C26.  drainAll is atomic with respect to enqueue: a flush pass attempts *)
(* exactly the entries that were in the queue at its drain step, each      *)
(* once, and an entry an execution enqueues while the pass runs is not     *)
(* attempted in that pass.                                                 *)
(***************************************************************************)
\* The drain takes every queued entry and leaves none; the pass then
\* attempts the entries it holds one by one, from the head, and holds none
\* twice; an enqueue during the pass does not change what the pass holds,
\* and what the pass holds is never in the queue.
DrainIsAtomic ==
    /\ [][FlushDrain =>
             /\ pending_reports' = <<>>
             /\ flush'.items = pending_reports]_vars
    /\ [][FlushDeliver =>
             /\ flush'.items = Tail(flush.items)
             /\ Rid(Head(flush.items)) \notin Rids(flush'.items)
             /\ pending_reports' = pending_reports]_vars
    /\ [][(\E e \in DOMAIN runs : RunReport(e)) => flush' = flush]_vars
    /\ [](/\ Rids(pending_reports) \cap FlushRids = {}
          /\ Cardinality(Rids(flush.items)) = Len(flush.items))

\* the steps of a running pass, up to and including its end
DuringPass == flush.pc = "deliver" /\ (flush'.pc = "deliver" \/ FlushFinish)

\* C26 (as claimed): in addition, an entry enqueued while the pass is
\* running is still in the queue when the pass ends: from the drain to the
\* end of the pass no entry leaves the queue.
C26_DrainAtomicEnqueuedStay ==
    /\ DrainIsAtomic
    /\ [][DuringPass => Rids(pending_reports) \subseteq Rids(pending_reports')]_vars

\* C26 (amended): in addition, an entry enqueued while the pass is running
\* is still in the queue when the pass ends unless later enqueues of the
\* same pass evicted it: from the drain to the end of the pass an entry
\* leaves the queue only as the head of a full queue, in the enqueue of an
\* execution.
C26_DrainAtomicEnqueuedStayUnlessEvicted ==
    /\ DrainIsAtomic
    /\ [][DuringPass =>
             \/ Rids(pending_reports) \subseteq Rids(pending_reports')
             \/ /\ Len(pending_reports) = PENDING_REPORTS_MAX
                /\ \E e \in DOMAIN runs : RunReport(e)
                /\ Rids(pending_reports) \ Rids(pending_reports')
                      = {Rid(Head(pending_reports))}
                /\ Len(pending_reports') = PENDING_REPORTS_MAX]_vars

\* a pass is about to end that holds the old report, tried in vain, while
\* the queue holds the reports of executions enqueued since its drain
C26_Witness ==
    /\ flush.pc = "deliver"
    /\ flush.items = <<>>
    /\ Rids(flush.still_pending) = {0}
    /\ Len(pending_reports) = PENDING_REPORTS_MAX
    /\ 1 \notin Rids(pending_reports)
    /\ 1 \notin delivered

(***************************************************************************)
(* C27.  A cached plan whose cron string does not parse is never           *)
(* dispatched and is skipped for the current tick only: no execution and   *)
(* no dispatch is ever of such a plan; when the supervisor comes to it,    *)
(* the plan cache is left as it is and the pass goes on with the next plan *)
(* of its snapshot (or ends, after the last); and every tick starts with a *)
(* snapshot of the whole cache, the unparsable plans included, from its    *)
(* first plan.                                                             *)
(***************************************************************************)
C27_InvalidCronSkippedThisTickOnly ==
    /\ [](/\ \A e \in DOMAIN runs : parse_cron_expression(runs[e].plan.cron).ok
          /\ \A i \in DOMAIN dispatched : dispatched[i][1] # PBad.id
          /\ sup.pc = "dispatch" =>
                parse_cron_expression(sup.plans[sup.i].cron).ok)
    /\ [][(/\ SupervisorEvaluate
           /\ ~parse_cron_expression(sup.plans[sup.i].cron).ok)
             => /\ synced_backup_plans' = synced_backup_plans
                /\ IF sup.i < Len(sup.plans)
                   THEN /\ sup'.pc = "evaluate"
                        /\ sup'.plans = sup.plans
                        /\ sup'.i = sup.i + 1
                   ELSE sup'.pc = "wait"]_vars
    /\ [][(SupervisorTick /\ synced_backup_plans # <<>>)
             => /\ sup'.pc = "evaluate"
                /\ sup'.plans = synced_backup_plans
                /\ sup'.i = 1]_vars

\* with the unparsable plan first in the cache, the plan behind it was
\* dispatched in an earlier tick and is found due again in this one
C27_Witness ==
    /\ synced_backup_plans = <<PBad, P1>>
    /\ sup.pc = "dispatch"
    /\ sup.plans = <<PBad, P1>>
    /\ sup.i = 2
    /\ \E i \in DOMAIN dispatched : dispatched[i][1] = P1.id

(***************************************************************************)
(* C28.  A successful plan fetch replaces the whole Plan Cache by exactly  *)
(* the fetched list: after the swap the cache equals the fetched list, and *)
(* no plan of the previous contents remains unless it is in the fetched    *)
(* list.                                                                   *)
(***************************************************************************)
C28_FetchReplacesWholeCache ==
    [][\A response \in FetchResponses :
          (SyncBackupPlansWith(response) /\ response.failure = "none")
             => /\ synced_backup_plans' = response.plans
                /\ \A p \in Range(synced_backup_plans) :
                      p \in Range(synced_backup_plans')
                         => p \in Range(response.plans)]_vars

\* p2 was in the cache and was dispatched; a later fetch has brought a
\* list without it
C28_Witness ==
    /\ synced_backup_plans = <<P1>>
    /\ \E i \in DOMAIN dispatched : dispatched[i][1] = P2.id
    /\ sup.pc = "wait"

(***************************************************************************)
(* C29.  Once a successful fetch has replaced the Plan Cache with a list   *)
(* that does not contain plan P, the supervisor dispatches no execution of *)
(* P until a later fetch contains P again, under any interleaving of the   *)
(* refresh loop with a supervisor tick: whenever the supervisor dispatches *)
(* an execution, the plan of that execution is in the Plan Cache.          *)
(***************************************************************************)
C29_RemovedPlanNotDispatched ==
    [][(SupervisorDispatch /\ spawned' = spawned + 1)
          => \E i \in DOMAIN synced_backup_plans :
                synced_backup_plans[i].id = runs'[spawned'].plan.id]_vars

(***************************************************************************)
(* C30.  A failure of the command executor never escapes the execution     *)
(* task: when the command returns, with success or with failure, the       *)
(* execution goes on to its report; the report has status `failed` and an  *)
(* error exactly when the command failed, status `success` and no error    *)
(* exactly when it succeeded; and whatever its status, the report is       *)
(* posted once, counts as delivered when the POST succeeds and is          *)
(* enqueued with attempts = 1 when it fails.                               *)
(***************************************************************************)
C30_CommandFailureIsReported ==
    /\ [][\A e \in DOMAIN runs : \A ok \in BOOLEAN :
             RunCommandWith(e, ok)
             => /\ e \in DOMAIN runs'
                /\ runs'[e].pc = "report"
                /\ runs'[e].status = (IF ok THEN "success" ELSE "failed")
                /\ LET payload == Payload(e, runs'[e].status)
                   IN /\ payload.status = runs'[e].status
                      /\ ok <=> payload.error = "null"
                      /\ ~ok <=> payload.status = "failed"]_vars
    /\ [][\A e \in DOMAIN runs : \A response \in DeliveryResponses :
             RunReportWith(e, response)
             => /\ runs[e].status \in {"success", "failed"}
                /\ e \notin DOMAIN runs'
                /\ IF response = "success"
                   THEN e \in delivered' /\ e \notin Rids(pending_reports')
                   ELSE /\ e \notin delivered'
                        /\ pending_reports'[Len(pending_reports')] =
                              PendingReport(ReportUrl(runs[e].plan.id),
                                            Payload(e, runs[e].status), 1)]_vars
    /\ [](\A i \in DOMAIN pending_reports :
             pending_reports[i].payload.status = "failed"
                <=> pending_reports[i].payload.error # "null")

\* the command of an execution failed, the immediate POST of its report
\* failed too, and the report is queued with the error set
C30_Witness ==
    \E i \in DOMAIN pending_reports :
       /\ Rid(pending_reports[i]) \in 1..spawned
       /\ Rid(pending_reports[i]) \notin DOMAIN runs
       /\ pending_reports[i].payload.status = "failed"
       /\ pending_reports[i].payload.error = "error"
       /\ pending_reports[i].attempts = 1

FieldSets(parsed) ==
    <<parsed.minute, parsed.hour, parsed.day_of_month, parsed.month,
      parsed.day_of_week>>

FieldsInRange(parsed) ==
    \A f \in 1..5 :
       /\ FieldSets(parsed)[f] # {}
       /\ FieldSets(parsed)[f] \subseteq FieldMin[f]..FieldMax[f]

C31_ParsedFieldsInRange ==
    /\ \A plan \in Range(synced_backup_plans) \cup Range(sup.plans)
                   \cup {runs[e].plan : e \in DOMAIN runs} :
          LET parsed == parse_cron_expression(plan.cron)
          IN  parsed.ok => FieldsInRange(parsed)
    /\ LET parsed == parse_cron_expression(CronWideSteps)
       IN /\ parsed.ok
          /\ parsed.minute = {0}
          /\ parsed.hour = {10}
          /\ parsed.day_of_week = {6}

\* the supervisor has parsed `0,30 9-17/4 * * 1-5` (hours 9, 13 and 17) and
\* found it due
C31_Witness ==
    /\ sup.pc = "dispatch"
    /\ sup.plans[sup.i].cron = CronOfficeHours
    /\ parse_cron_expression(sup.plans[sup.i].cron).hour = {9, 13, 17}

(***************************************************************************)
(* C32.  If from some point on every delivery attempt succeeds and no new  *)
(* report is enqueued, then from some pass on the queue is empty and the   *)
(* state file holds the empty list (C32_QueueAndFileEmptyEventually).      *)
(* What holds while the process keeps running                              *)
(* (C32_QueueEmptyEventuallyFileOnWrite): under that condition the queue   *)
(* is empty and the flush loop at its timer wait from some pass on; the    *)
(* state file then holds the empty list unless the write that ended the    *)
(* last pass failed, or no pass has drained an entry since a startup that  *)
(* found the file missing or unreadable: a step that leaves the queue      *)
(* empty, the flush loop waiting and another content in the file is a      *)
(* failed write, and at startup such a file is a missing or unreadable     *)
(* one.                                                                    *)
(***************************************************************************)
\* a delivery attempt fails: the immediate one of an execution (the report
\* is enqueued) or one of the flush loop
FailedDeliveryStep ==
    \/ \E e \in DOMAIN runs : \E response \in DeliveryResponses \ {"success"} :
          RunReportWith(e, response)
    \/ \E response \in DeliveryResponses \ {"success"} : FlushDeliverWith(response)

\* the write of the state file at the end of a flush pass fails
FailedWriteStep == FlushFinishWith(FALSE) /\ ~FlushFinishWith(TRUE)

\* an entry is pending: in the queue or drained by the running flush pass
EntryPending == pending_reports # <<>> \/ flush.pc = "deliver"

SettledOnOtherFile == ~EntryPending /\ state_file # JsonFile(<<>>)

Held(queue, pass) ==
    Range(queue) \cup Range(pass.items) \cup Range(pass.still_pending)

C33_AtMostMaxAttemptsPlusOne ==
    /\ [](\A r \in Held(pending_reports, flush) :
             r.attempts \in 1..PENDING_REPORT_MAX_ATTEMPTS)
    /\ [][\A r2 \in Held(pending_reports', flush') :
             \/ \E r \in Held(pending_reports, flush) :
                   Rid(r) = Rid(r2) /\ r.attempts <= r2.attempts
             \/ /\ Rid(r2) \in DOMAIN runs \ DOMAIN runs'
                /\ r2.attempts = 1]_vars

(***************************************************************************)
(* C34.  Every dispatch is recorded under a minute in which the plan is    *)
(* due: when the supervisor dispatches a plan, the minute in the dedup key *)
(* it records is a minute the plan's cron matches (the minute the match    *)
(* was evaluated at), also when the clock has moved between the match and  *)
(* the computation of the key.                                             *)
(***************************************************************************)
C34_KeyMinuteIsDueMinute ==
    [][(sup.pc = "dispatch" /\ Len(dispatched') = Len(dispatched) + 1)
       => LET plan == sup.plans[sup.i]
              key  == dispatched'[Len(dispatched')]
          IN /\ key = MinuteTickKey(plan.id, clock)
             /\ cron_matches_now(parse_cron_expression(plan.cron), clock)]_vars

(***************************************************************************)
(* C35.  In every reachable state every entry of the queue, and every      *)
(* entry of the state file, has an attempt count between 1 and             *)
(* PENDING_REPORT_MAX_ATTEMPTS inclusive.                                  *)
(***************************************************************************)
C35_AttemptCountInBounds ==
    /\ \A i \in DOMAIN pending_reports :
          pending_reports[i].attempts \in 1..PENDING_REPORT_MAX_ATTEMPTS
    /\ \A r \in Range(load_pending_reports(state_file)) :
          r.attempts \in 1..PENDING_REPORT_MAX_ATTEMPTS

\* an entry that has its last retry left is in the queue and in the state
\* file the flush loop wrote, next to an entry enqueued by an execution
C35_Witness ==
    /\ state_file = JsonFile(pending_reports)
    /\ \E i, j \in DOMAIN pending_reports :
          /\ pending_reports[i].attempts = PENDING_REPORT_MAX_ATTEMPTS
          /\ Rid(pending_reports[j]) >= 1
          /\ pending_reports[j].attempts < PENDING_REPORT_MAX_ATTEMPTS
    /\ flush.pc = "wait"

(***************************************************************************)
(* C36.  The dedup set is bounded: in every reachable state it holds at    *)
(* most DedupHighWater + 1 keys, because a dispatch attempt that finds     *)
(* more than DedupHighWater keys clears the set before it inserts its own  *)
(* key, which is then the only one.                                        *)
(***************************************************************************)
C36_DedupSetBounded ==
    /\ [](Cardinality(executed_plan_ticks) <= DedupHighWater + 1)
    /\ [][(SupervisorDispatch
           /\ Cardinality(executed_plan_ticks) > DedupHighWater)
          => executed_plan_ticks' =
                {MinuteTickKey(sup.plans[sup.i].id, clock)}]_vars

\* the set is one key above the high-water mark
C36_Witness ==
    Cardinality(executed_plan_ticks) = DedupHighWater + 1

(***************************************************************************)
(* C37.  No report is held twice inside one process: in every reachable    *)
(* state the queue holds no report twice, the entries of the running flush *)
(* pass (those still to try and those to re-insert) hold no report twice,  *)
(* and no report is in the queue and in the running pass at once.          *)
(***************************************************************************)
NoReportTwice(reports) ==
    \A i, j \in DOMAIN reports : Rid(reports[i]) = Rid(reports[j]) => i = j

C37_NoEntryHeldTwice ==
    /\ NoReportTwice(pending_reports)
    /\ NoReportTwice(flush.items \o flush.still_pending)
    /\ Rids(pending_reports) \cap Rids(flush.items \o flush.still_pending) = {}

\* a flush pass is under way with one entry tried and kept and one still to
\* try, and an execution has enqueued its report meanwhile
C37_Witness ==
    /\ flush.pc = "deliver"
    /\ flush.items # <<>>
    /\ flush.still_pending # <<>>
    /\ pending_reports # <<>>

(***************************************************************************)
(* C38.  While the process keeps running, a report leaves the pending set  *)
(* (the queue together with the entries of the running flush pass) only in *)
(* one of three ways: its delivery by the flush loop succeeded; its        *)
(* delivery failed and took its attempt count above                        *)
(* PENDING_REPORT_MAX_ATTEMPTS; or it was dropped for capacity while the   *)
(* queue held PENDING_REPORTS_MAX entries, as the head evicted by an       *)
(* enqueue or as an entry the re-insert loop found no room for.            *)
(***************************************************************************)
PendingSet(queue, pass) == Rids(queue) \cup Rids(pass.items \o pass.still_pending)

LeftByAttempt(rid) ==
    /\ flush.pc = "deliver"
    /\ flush.items # <<>>
    /\ Rid(Head(flush.items)) = rid
    /\ flush'.items = Tail(flush.items)
    /\ \/ rid \in delivered' /\ flush'.still_pending = flush.still_pending
       \/ /\ Head(flush.items).attempts + 1 > PENDING_REPORT_MAX_ATTEMPTS
          /\ delivered' = delivered

LeftForCapacity(rid) ==
    \/ /\ Len(pending_reports) = PENDING_REPORTS_MAX
       /\ Rid(Head(pending_reports)) = rid
       /\ Len(pending_reports') = PENDING_REPORTS_MAX
       /\ DOMAIN runs' # DOMAIN runs
    \/ /\ flush.pc = "deliver"
       /\ flush.items = <<>>
       /\ rid \in Rids(flush.still_pending)
       /\ Len(pending_reports') = PENDING_REPORTS_MAX

C38_EntryLeavesInThreeWays ==
    [][\A rid \in PendingSet(pending_reports, flush)
                     \ PendingSet(pending_reports', flush') :
          LeftByAttempt(rid) \/ LeftForCapacity(rid)]_vars

\* the report found in the state file has been delivered by the flush loop,
\* the report of an execution has left the pending set undelivered, and the
\* queue is full
C38_Witness ==
    /\ 0 \in delivered
    /\ Len(pending_reports) = PENDING_REPORTS_MAX
    /\ \E rid \in 1..spawned :
          /\ rid \notin DOMAIN runs
          /\ rid \notin delivered
          /\ rid \notin PendingSet(pending_reports, flush)

(***************************************************************************)
(* C39.  A supervisor tick changes only the dedup set and the set of       *)
(* running executions: no step of the supervisor modifies the Plan Cache,  *)
(* the Report Queue or the state file, and a tick that finds the Plan      *)
(* Cache empty changes nothing at all (nothing is dispatched, the dedup    *)
(* set stays as it is, the supervisor is back at its timer wait).          *)
(***************************************************************************)
C39_SupervisorFrame ==
    /\ [][(SupervisorTick \/ SupervisorEvaluate \/ SupervisorDispatch)
          => UNCHANGED <<synced_backup_plans, synced, pending_reports,
                         state_file, last_saved, flush, delivered, clock>>]_vars
    /\ [][(SupervisorTick \/ SupervisorEvaluate)
          => UNCHANGED <<executed_plan_ticks, runs, spawned, dispatched>>]_vars
    /\ [][(SupervisorTick /\ synced_backup_plans = <<>>) => UNCHANGED vars]_vars

\* a tick is under way over the plans of the cache, one of them already
\* dispatched, while the queue holds a report
C39_Witness ==
    /\ sup.pc \in {"evaluate", "dispatch"}
    /\ sup.i = 2
    /\ synced_backup_plans = sup.plans
    /\ dispatched # <<>>
    /\ executed_plan_ticks # {}
    /\ pending_reports # <<>>

====
